---- MODULE Spec2Model ----
(***************************************************************************)
(* Model of the zk-framework connection manager (pkg/framework) and watch  *)
(* manager (pkg/watcher).  The API callers are processes with a position   *)
(* pc[p]; every goroutine the program spawns is a record of its local      *)
(* state, kept in a bag per kind of goroutine.  The unbuffered Go channels *)
(* `shutdown`, `statusChange` and each watch's private `shutdownCh` are    *)
(* rendezvous between a process blocked in a send and a process blocked in *)
(* a select that receives from the channel.                                *)
(***************************************************************************)
EXTENDS Integers, Sequences, FiniteSets, TLC

\* ---------------------------------------------------------------- bounds
\* threads that call WaitConnection
MaxWaiters == 1
\* watch listeners created by watcher.Set
MaxSets == 1
\* state events of the session in a run with one Stop
StopEvents == 3
\* state events of the session in a run with a restart
RestartEvents == 2
\* state events of the session in a run with a lost connection
LossEvents == 5
\* state events of the session in a run with a watch and no lost connection
WatchEvents == 2
\* remote changes of the watched node
MaxChanges == 2

\* calls of Get in a run of the cache
MaxGets == 7
\* calls of Clear in a run of the cache
MaxClears == 1
\* updates of nodes in a run of the cache
MaxUpdates == 1
\* failing requests in a run of the cache
MaxFails == 1
\* calls of Get in a run of a synchronised cache
SynchGets == 4
RaceGets == 5
\* updates of nodes in a run of a synchronised cache
SynchUpdates == 2
\* the largest budget of a cache, in entries of one byte
MaxEntries == 2
\* calls of the callback of one test listener
MaxInteractions == 2
\* calls of watcher.Set in a run of a test of the watch manager
TestSets == 2
\* calls of watcher.UnSet in a run of a test of the watch manager
TestUnSets == 1
\* creations, updates and deletions of the node in such a run
TestChanges == 2
\* calls of the operations of pkg/operation in a run
MaxOps == 2

\* ------------------------------------------------------ program constants
defaultReconnectionTimeoutMs == 100

\* the registration key built by Set/UnSet from the sorted types and the path
Keys == {"3-/node"}

VARIABLES
  started, state, previousState, cn, reconnectionTimeoutMs,
  shutdownConsumers, statusChangeConsumers, statusChangeLock,
  statusChangeListeners, shutdownListeners,
  zkState, events, eventsClosed,
  pc, res, idx, cur, key,
  eventTasks, stateTasks, notifiers, stopTasks, watchFns,
  watchListeners, watching, disconnected,
  limit, nLoss, nEvents, nStarts, nStops, nSets, nUnSets, nChanges,
  stopped, via, forwarded, lostSinceSet, matching,
  cache, cacheUsage, sizeInBytes, evictionPolicy, maxSizeInBytes, synched, mu,
  namespace, call, refreshTasks, nodes, now, nGets, nClears, nFails, obs, accessed,
  interactions, rcall, outCh, opTasks, peer, attempts

fwVars == <<started, state, previousState, cn, reconnectionTimeoutMs>>
cntVars == <<shutdownConsumers, statusChangeConsumers>>
regVars == <<statusChangeListeners, shutdownListeners>>
zkVars == <<zkState, events, eventsClosed>>
callVars == <<pc, res, idx, cur, key>>
taskVars == <<eventTasks, stateTasks, notifiers, stopTasks, watchFns>>
wlVars == <<watchListeners, watching, disconnected>>
envVars == <<limit, nLoss, nEvents, nStarts, nStops, nSets, nUnSets, nChanges>>
\* history variables: they record what happened and steer nothing
ghostVars == <<stopped, via, forwarded, lostSinceSet, matching>>

\* the options a cache is built with, and the namespace of its framework
cfgVars == <<evictionPolicy, maxSizeInBytes, synched, namespace>>
\* the cache, its caller, its refresh goroutines, the remote nodes, the clock
cacheVars == <<cfgVars, cache, cacheUsage, sizeInBytes, mu, call, refreshTasks,
               nodes, now, nGets, nClears, nFails, obs, accessed>>

\* the calls a test makes on the listener API: the Interactions of its
\* listeners and the call under way or made last; the events a test has
\* received on the output channels of its watches; the goroutines of the
\* operations it has called; the listener registries of a second framework
\* of the process
apiVars == <<interactions, rcall, outCh, opTasks, peer>>

vars == <<fwVars, cntVars, regVars, zkVars, statusChangeLock, callVars, taskVars,
          wlVars, envVars, ghostVars, cacheVars, apiVars, attempts>>

\* ------------------------------------------------------------- processes
Main == 0
Waiters == 1..MaxWaiters
Callers == {Main} \cup Waiters
Objs == 1..MaxSets

EmptyMap == [u \in {} |-> 0]

NoPair == <<"-", "-">>
MapPut(m, k, v) == [x \in (DOMAIN m) \cup {k} |-> IF x = k THEN v ELSE m[x]]

MapDel(m, k) == [x \in (DOMAIN m) \ {k} |-> m[x]]

\* goroutines are kept as a bag: a function from a goroutine's local state
\* to the number of goroutines in that state
BagAdd(b, r) ==
  IF r \in DOMAIN b
    THEN [b EXCEPT ![r] = @ + 1]
    ELSE [x \in (DOMAIN b) \cup {r} |-> IF x = r THEN 1 ELSE b[x]]

BagDel(b, r) ==
  IF b[r] > 1
    THEN [b EXCEPT ![r] = @ - 1]
    ELSE [x \in (DOMAIN b) \ {r} |-> b[x]]

Move(b, r, r2) == BagAdd(BagDel(b, r), r2)

isConnectedState(s) == s \in {"Connected", "HasSession"}

Connected == isConnectedState(state)

\* the read lock of Connected() can be taken when no writer holds the lock
CanRLock == statusChangeLock = "free"

\* the session puts an event on its buffered event channel; the buffer is
\* never full in the runs explored, which hold fewer events than it takes
sendEvent(q, e) == Append(q, e)

\* CreateFramework
Created ==
  /\ started = FALSE
  /\ state = "Disconnected"
  /\ previousState = "Disconnected"
  /\ cn = 0
  /\ reconnectionTimeoutMs = defaultReconnectionTimeoutMs
  /\ shutdownConsumers = 0
  /\ statusChangeConsumers = 0
  /\ statusChangeLock = "free"
  /\ statusChangeListeners = EmptyMap
  /\ shutdownListeners = EmptyMap
  /\ zkState = "Disconnected"
  /\ events = <<>>
  /\ eventsClosed = TRUE
  /\ pc = [p \in Callers |-> "idle"]
  /\ res = [p \in Callers |-> "-"]
  /\ idx = 0
  /\ cur = 0
  /\ key = "-"
  /\ eventTasks = EmptyMap
  /\ stateTasks = EmptyMap
  /\ notifiers = EmptyMap
  /\ stopTasks = EmptyMap
  /\ watchFns = EmptyMap
  /\ watchListeners = EmptyMap
  /\ watching = [o \in Objs |-> FALSE]
  /\ disconnected = [o \in Objs |-> FALSE]
  /\ nLoss = 0
  /\ nEvents = 0
  /\ nStarts = 0
  /\ nStops = 0
  /\ nUnSets = 0
  /\ nSets = 0
  /\ nChanges = 0
  /\ stopped = FALSE
  /\ forwarded = 0
  /\ lostSinceSet = FALSE
  /\ via = [p \in Waiters |-> "-"]
  /\ matching = 0
  /\ attempts = 0

\* ------------------------------------------------------- session library
\* a new watchEvents and a new connectionWatcher goroutine of session s
newEventTask(s) ==
  [id |-> s, pc |-> "we_new", i |-> 0, ev |-> "-", fan |-> {}, dup |-> FALSE]

newStateTask(s) == [id |-> s, pc |-> "cw_new", i |-> 0, st |-> "-", last |-> "-"]

\* zk.Conn.Close: the library reports Disconnected when a connection was up,
\* then closes the event channel
closedEvents ==
  IF isConnectedState(zkState) THEN sendEvent(events, "Disconnected") ELSE events

\* what the session does to the channel of a watch.  zk.Conn.Close
\* invalidates every watch of the session: its channel gets a not-watching
\* event and is closed.  When the watched node changes, the one-shot watch
\* fires: the event is put on the watch's channel.
turned(f, how) ==
  IF f.out = "armed"
    THEN [f EXCEPT !.out = IF how = "close" THEN "bogus" ELSE "fired"]
    ELSE f

\* the watchFn goroutines after the session has turned every watch channel
turnedAll(b, how) ==
  LET img == {turned(r, how) : r \in DOMAIN b}
      cnt(x) == LET S == {r \in DOMAIN b : turned(r, how) = x}
                    sum[T \in SUBSET S] ==
                      IF T = {} THEN 0
                      ELSE LET r == CHOOSE r \in T : TRUE IN b[r] + sum[T \ {r}]
                IN sum[S]
  IN [x \in img |-> cnt(x)]

\* cn.ExistsW(path) reports the node when the session can reach the server
existsW == ~eventsClosed /\ isConnectedState(zkState)

\* the library's own connection loop: Connecting, Connected, HasSession
ZkAdvance ==
  /\ ~eventsClosed
  /\ nEvents < limit.events
  /\ zkState \in {"Disconnected", "Connecting", "Connected"}
  /\ LET nxt == CASE zkState = "Disconnected" -> "Connecting"
                  [] zkState = "Connecting" -> "Connected"
                  [] OTHER -> "HasSession"
     IN /\ zkState' = nxt
        /\ events' = sendEvent(events, nxt)
  /\ nEvents' = nEvents + 1
  /\ UNCHANGED <<fwVars, cntVars, regVars, eventsClosed, statusChangeLock, callVars,
                 taskVars, wlVars, limit, nLoss, nStarts, nStops, nSets, nUnSets, nChanges, ghostVars>>

\* the server or the network drops the connection
ZkLoss ==
  /\ ~eventsClosed
  /\ nEvents < limit.events
  /\ nLoss < limit.loss
  /\ isConnectedState(zkState)
  /\ zkState' = "Disconnected"
  /\ events' = sendEvent(events, "Disconnected")
  /\ nEvents' = nEvents + 1
  /\ nLoss' = nLoss + 1
  /\ lostSinceSet' = (lostSinceSet \/ watchListeners # EmptyMap)
  /\ UNCHANGED <<fwVars, cntVars, regVars, eventsClosed, statusChangeLock, callVars,
                 taskVars, wlVars, limit, nStarts, nStops, nSets, nUnSets, nChanges, stopped, via, forwarded, matching>>

\* a remote client changes the data of the watched node: every watch armed on
\* the live session fires
NodeChange ==
  /\ nChanges < limit.changes
  /\ existsW
  /\ nChanges' = nChanges + 1
  /\ watchFns' = turnedAll(watchFns, "fire")
  /\ matching' = IF \E k \in DOMAIN watchListeners : watching[watchListeners[k]]
                   THEN matching + 1 ELSE matching
  /\ UNCHANGED <<fwVars, cntVars, regVars, zkVars, statusChangeLock, callVars,
                 eventTasks, stateTasks, notifiers, stopTasks, wlVars,
                 limit, nLoss, nEvents, nStarts, nStops, nSets, nUnSets,
                 stopped, via, forwarded, lostSinceSet>>

\* --------------------------------------------------------------- framework
\* a Start that does not look at c.started and connects again
StartAgain ==
  /\ pc[Main] = "idle"
  /\ started
  /\ nStarts < limit.starts
  /\ cn' = cn + 1
  /\ zkState' = "Disconnected"
  /\ events' = <<>>
  /\ eventsClosed' = FALSE
  /\ eventTasks' = BagAdd(eventTasks, newEventTask(cn + 1))
  /\ stateTasks' = BagAdd(stateTasks, newStateTask(cn + 1))
  /\ res' = [res EXCEPT ![Main] = "nil"]
  /\ nStarts' = nStarts + 1
  /\ UNCHANGED <<started, state, previousState, reconnectionTimeoutMs, cntVars, regVars,
                 statusChangeLock, pc, idx, cur, key, notifiers, stopTasks, watchFns,
                 wlVars, limit, nLoss, nEvents, nStops, nSets, nUnSets, nChanges, ghostVars>>

\* Start on a framework that is already started
StartAlready ==
  /\ pc[Main] = "idle"
  /\ started
  /\ nStarts < limit.starts
  /\ res' = [res EXCEPT ![Main] = "AlreadyStarted"]
  /\ nStarts' = nStarts + 1
  /\ UNCHANGED <<fwVars, cntVars, regVars, zkVars, statusChangeLock, pc, idx, cur, key,
                 taskVars, wlVars, limit, nLoss, nEvents, nStops, nSets, nUnSets, nChanges, ghostVars>>

\* Start: started = true, then tryConnect opens a session and spawns
\* watchEvents and connectionWatcher
Start ==
  /\ pc[Main] = "idle"
  /\ ~started
  /\ nStarts < limit.starts
  /\ started' = TRUE
  /\ cn' = cn + 1
  /\ zkState' = "Disconnected"
  /\ events' = <<>>
  /\ eventsClosed' = FALSE
  /\ eventTasks' = BagAdd(eventTasks, newEventTask(cn + 1))
  /\ stateTasks' = BagAdd(stateTasks, newStateTask(cn + 1))
  /\ res' = [res EXCEPT ![Main] = "nil"]
  /\ nStarts' = nStarts + 1
  /\ stopped' = FALSE
  /\ UNCHANGED <<state, previousState, reconnectionTimeoutMs, cntVars, regVars,
                 statusChangeLock, pc, idx, cur, key, notifiers, stopTasks, watchFns,
                 wlVars, limit, nLoss, nEvents, nStops, nSets, nUnSets, nChanges,
                 via, forwarded, lostSinceSet, matching>>

\* a WaitConnection that does not look at c.started and goes on to wait
WcWaitsUnstarted(w) ==
  /\ pc[w] = "idle"
  /\ w <= limit.waiters
  /\ ~started
  /\ pc' = [pc EXCEPT ![w] = "wc_reg"]
  /\ UNCHANGED <<fwVars, cntVars, regVars, zkVars, statusChangeLock, res, idx, cur, key,
                 taskVars, wlVars, envVars, ghostVars>>

\* WaitConnection on a framework that is not started
WcNotStarted(w) ==
  /\ pc[w] = "idle"
  /\ w <= limit.waiters
  /\ ~started
  /\ pc' = [pc EXCEPT ![w] = "done"]
  /\ res' = [res EXCEPT ![w] = "NotYetStarted"]
  /\ UNCHANGED <<fwVars, cntVars, regVars, zkVars, statusChangeLock, idx, cur, key,
                 taskVars, wlVars, envVars, ghostVars>>

\* WaitConnection on a started framework: return nil when Connected()
WcCheck(w) ==
  /\ pc[w] = "idle"
  /\ w <= limit.waiters
  /\ started
  /\ CanRLock
  /\ IF Connected
       THEN /\ pc' = [pc EXCEPT ![w] = "done"]
            /\ res' = [res EXCEPT ![w] = "nil"]
            /\ via' = [via EXCEPT ![w] = "connected"]
       ELSE /\ pc' = [pc EXCEPT ![w] = "wc_reg"]
            /\ UNCHANGED <<res, via>>
  /\ UNCHANGED <<fwVars, cntVars, regVars, zkVars, statusChangeLock, idx, cur, key,
                 taskVars, wlVars, envVars, stopped, forwarded, lostSinceSet, matching>>

\* WaitConnection registers as a consumer of shutdown and of statusChange
WcRegister(w) ==
  /\ pc[w] = "wc_reg"
  /\ shutdownConsumers' = shutdownConsumers + 1
  /\ statusChangeConsumers' = statusChangeConsumers + 1
  /\ pc' = [pc EXCEPT ![w] = "wc_sel"]
  /\ UNCHANGED <<fwVars, regVars, zkVars, statusChangeLock, res, idx, cur, key,
                 taskVars, wlVars, envVars, ghostVars>>

\* after a state arrived on statusChange: return nil when connected, else
\* wait again
WcRecheck(w) ==
  /\ pc[w] = "wc_rechk"
  /\ CanRLock
  /\ IF Connected
       THEN /\ pc' = [pc EXCEPT ![w] = "wc_ret"]
            /\ res' = [res EXCEPT ![w] = "nil"]
            /\ via' = [via EXCEPT ![w] = "connected"]
       ELSE /\ pc' = [pc EXCEPT ![w] = "wc_sel"]
            /\ UNCHANGED <<res, via>>
  /\ UNCHANGED <<fwVars, cntVars, regVars, zkVars, statusChangeLock, idx, cur, key,
                 taskVars, wlVars, envVars, stopped, forwarded, lostSinceSet, matching>>

\* case <-time.After(timeout)
WcTimeout(w) ==
  /\ pc[w] = "wc_sel"
  /\ pc' = [pc EXCEPT ![w] = "wc_ret"]
  /\ res' = [res EXCEPT ![w] = "ConnectionTimeout"]
  /\ UNCHANGED <<fwVars, cntVars, regVars, zkVars, statusChangeLock, idx, cur, key,
                 taskVars, wlVars, envVars, ghostVars>>

\* the deferred decrements of WaitConnection
WcReturn(w) ==
  /\ pc[w] = "wc_ret"
  /\ shutdownConsumers' = shutdownConsumers - 1
  /\ statusChangeConsumers' = statusChangeConsumers - 1
  /\ pc' = [pc EXCEPT ![w] = "done"]
  /\ UNCHANGED <<fwVars, regVars, zkVars, statusChangeLock, res, idx, cur, key,
                 taskVars, wlVars, envVars, ghostVars>>

\* watchEvents registers as a consumer of shutdown and enters its select
WeRegister(e) ==
  /\ e.pc = "we_new"
  /\ shutdownConsumers' = shutdownConsumers + 1
  /\ eventTasks' = Move(eventTasks, e, [e EXCEPT !.pc = "we_sel"])
  /\ UNCHANGED <<fwVars, statusChangeConsumers, regVars, zkVars, statusChangeLock,
                 callVars, stateTasks, notifiers, stopTasks, watchFns, wlVars,
                 envVars, ghostVars>>

\* the fan-out loop of watchEvents for event ev, at its test
\* i < statusChangeConsumers.Load(): a send follows, or the loop is over
fanOut(e, ev, i, fan, dup) ==
  IF i < statusChangeConsumers
    THEN [e EXCEPT !.pc = "we_send", !.ev = ev, !.i = i, !.fan = fan, !.dup = dup]
    ELSE [e EXCEPT !.pc = "we_sel", !.ev = "-", !.i = 0, !.fan = {}, !.dup = FALSE]

\* case event := <-c.events, on the open event channel of the session
WeRecvEvent(e) ==
  /\ e.pc = "we_sel"
  /\ ~eventsClosed
  /\ events # <<>>
  /\ events' = Tail(events)
  /\ eventTasks' = Move(eventTasks, e, fanOut(e, Head(events), 0, {}, FALSE))
  /\ UNCHANGED <<fwVars, cntVars, regVars, zkState, eventsClosed, statusChangeLock,
                 callVars, stateTasks, notifiers, stopTasks, watchFns, wlVars,
                 envVars, ghostVars>>

\* case event := <-c.events, on a closed event channel: the receive yields
\* the zero Event, whose State is StateDisconnected
WeRecvClosed(e) ==
  /\ e.pc = "we_sel"
  /\ eventsClosed
  /\ statusChangeConsumers > 0
  /\ nEvents < limit.events
  /\ nEvents' = nEvents + 1
  /\ eventTasks' = Move(eventTasks, e, fanOut(e, "Disconnected", 0, {}, FALSE))
  /\ UNCHANGED <<fwVars, cntVars, regVars, zkVars, statusChangeLock,
                 callVars, stateTasks, notifiers, stopTasks, watchFns, wlVars,
                 limit, nLoss, nStarts, nStops, nSets, nUnSets, nChanges, ghostVars>>

\* the deferred decrement of watchEvents; the goroutine ends
WeExit(e) ==
  /\ e.pc = "we_exit"
  /\ shutdownConsumers' = shutdownConsumers - 1
  /\ eventTasks' = BagDel(eventTasks, e)
  /\ UNCHANGED <<fwVars, statusChangeConsumers, regVars, zkVars, statusChangeLock,
                 callVars, stateTasks, notifiers, stopTasks, watchFns, wlVars,
                 envVars, ghostVars>>

\* c.statusChange <- event.State, received by a connectionWatcher; the
\* sender goes on to the next loop test
StatusToWatcher(e, c) ==
  /\ e.pc = "we_send"
  /\ c.pc = "cw_sel"
  /\ eventTasks' = Move(eventTasks, e,
       fanOut(e, e.ev, e.i + 1, e.fan \cup {-c.id}, e.dup \/ -c.id \in e.fan))
  /\ stateTasks' = Move(stateTasks, c, [c EXCEPT !.pc = "cw_lock", !.st = e.ev, !.last = "-"])
  /\ UNCHANGED <<fwVars, cntVars, regVars, zkVars, statusChangeLock,
                 callVars, notifiers, stopTasks, watchFns, wlVars, envVars, ghostVars>>

\* c.statusChange <- event.State, received by a WaitConnection caller; the
\* sender goes on to the next loop test
StatusToWaiter(e, w) ==
  /\ e.pc = "we_send"
  /\ pc[w] = "wc_sel"
  /\ eventTasks' = Move(eventTasks, e,
       fanOut(e, e.ev, e.i + 1, e.fan \cup {w}, e.dup \/ w \in e.fan))
  /\ pc' = [pc EXCEPT ![w] = "wc_rechk"]
  /\ UNCHANGED <<fwVars, cntVars, regVars, zkVars, statusChangeLock, res, idx, cur, key,
                 stateTasks, notifiers, stopTasks, watchFns, wlVars, envVars, ghostVars>>

\* connectionWatcher registers as a consumer of shutdown and of statusChange
CwRegister(c) ==
  /\ c.pc = "cw_new"
  /\ shutdownConsumers' = shutdownConsumers + 1
  /\ statusChangeConsumers' = statusChangeConsumers + 1
  /\ stateTasks' = Move(stateTasks, c, [c EXCEPT !.pc = "cw_sel"])
  /\ UNCHANGED <<fwVars, regVars, zkVars, statusChangeLock, callVars,
                 eventTasks, notifiers, stopTasks, watchFns, wlVars, envVars, ghostVars>>

sameStateNever(st) == FALSE

\* handleStatusChange: if state == c.state
sameState(st) == st = state

\* handleStatusChange: c.started && c.previouslyConnected() && !isConnectedState(c.state),
\* evaluated after previousState and state were assigned
lostConnection(st) == started /\ isConnectedState(state) /\ ~isConnectedState(st)

\* a successful reconnect: the state goes from not connected to connected
reconnected(from, to) == ~isConnectedState(from) /\ isConnectedState(to)

\* a backoff that is never reset
resetNever(st) == FALSE

\* handleStatusChange: !c.previouslyConnected() && isConnectedState(c.state)
resetTimeout(st) == ~isConnectedState(state) /\ isConnectedState(st)

\* a NotifyStatusChange goroutine spawned for the transition from a to b; exp
\* records the transition when a listener is registered at that time
newNotifier(a, b) ==
  [pc |-> "nt_new", todo |-> {}, cur |-> 0,
   exp |-> IF statusChangeListeners = EmptyMap THEN NoPair ELSE <<a, b>>]

\* handleStatusChange with the current state: nothing happens
HandleSame(c) ==
  /\ c.pc = "cw_lock"
  /\ statusChangeLock = "free"
  /\ sameState(c.st)
  /\ stateTasks' = Move(stateTasks, c, [c EXCEPT !.pc = "cw_sel", !.st = "-", !.last = "same"])
  /\ UNCHANGED <<fwVars, cntVars, regVars, zkVars, statusChangeLock, callVars,
                 eventTasks, notifiers, stopTasks, watchFns, wlVars, envVars, ghostVars>>

\* handleStatusChange with a new state: record the transition, spawn the
\* notification, and on a lost connection keep the lock and start invalidateCn
HandleChange(c) ==
  /\ c.pc = "cw_lock"
  /\ statusChangeLock = "free"
  /\ ~sameState(c.st)
  /\ previousState' = state
  /\ state' = c.st
  /\ notifiers' = BagAdd(notifiers, newNotifier(state, c.st))
  /\ reconnectionTimeoutMs' =
       IF resetTimeout(c.st) THEN defaultReconnectionTimeoutMs ELSE reconnectionTimeoutMs
  /\ attempts' = IF reconnected(state, c.st) THEN 0 ELSE attempts
  /\ IF lostConnection(c.st)
       THEN /\ statusChangeLock' = "cw"
            /\ stateTasks' = Move(stateTasks, c, [c EXCEPT !.pc = "cw_sbchk", !.st = "-", !.i = 0])
       ELSE /\ statusChangeLock' = statusChangeLock
            /\ stateTasks' = Move(stateTasks, c, [c EXCEPT !.pc = "cw_sel", !.st = "-"])
  /\ UNCHANGED <<started, cn, cntVars, regVars, zkVars, callVars,
                 eventTasks, stopTasks, watchFns, wlVars, envVars, ghostVars>>

\* stopBgTasks called by invalidateCn: the loop test i < shutdownConsumers.Load()
CwStopBgCheck(c) ==
  /\ c.pc = "cw_sbchk"
  /\ stateTasks' = Move(stateTasks, c,
       IF c.i < shutdownConsumers
         THEN [c EXCEPT !.pc = "cw_sbsend"]
         ELSE [c EXCEPT !.pc = "cw_backoff", !.i = 0])
  /\ UNCHANGED <<fwVars, cntVars, regVars, zkVars, statusChangeLock, callVars,
                 eventTasks, notifiers, stopTasks, watchFns, wlVars, envVars, ghostVars>>

\* c.reconnectionTimeoutMs *= 2 (a uint64: it would wrap only after 58
\* doublings in a row, more than any run explored here makes)
doubled(ms) == ms * 2

\* the rest of invalidateCn: wait the backoff delay, double it, close the
\* stale session, tryConnect; then handleStatusChange unlocks and the
\* connectionWatcher goes back to its select
Reconnect(c) ==
  /\ c.pc = "cw_backoff"
  /\ reconnectionTimeoutMs' = doubled(reconnectionTimeoutMs)
  /\ attempts' = attempts + 1
  /\ cn' = cn + 1
  /\ zkState' = "Disconnected"
  /\ events' = <<>>
  /\ eventsClosed' = FALSE
  /\ watchFns' = turnedAll(watchFns, "close")
  /\ eventTasks' = BagAdd(eventTasks, newEventTask(cn + 1))
  /\ stateTasks' = BagAdd(Move(stateTasks, c, [c EXCEPT !.pc = "cw_sel"]),
                          newStateTask(cn + 1))
  /\ statusChangeLock' = "free"
  /\ UNCHANGED <<started, state, previousState, cntVars, regVars, callVars,
                 notifiers, stopTasks, wlVars, envVars, ghostVars>>

\* the deferred decrements of connectionWatcher; the goroutine ends
CwExit(c) ==
  /\ c.pc = "cw_exit"
  /\ shutdownConsumers' = shutdownConsumers - 1
  /\ statusChangeConsumers' = statusChangeConsumers - 1
  /\ stateTasks' = BagDel(stateTasks, c)
  /\ UNCHANGED <<fwVars, regVars, zkVars, statusChangeLock, callVars,
                 eventTasks, notifiers, stopTasks, watchFns, wlVars, envVars, ghostVars>>

\* Stop on a framework that is not started
StopNotStarted ==
  /\ pc[Main] = "idle"
  /\ statusChangeLock = "free"
  /\ ~started
  /\ nStops < limit.stops
  /\ nStops' = nStops + 1
  /\ res' = [res EXCEPT ![Main] = "NotYetStarted"]
  /\ UNCHANGED <<fwVars, cntVars, regVars, zkVars, statusChangeLock, pc, idx, cur, key,
                 taskVars, wlVars,
                 limit, nLoss, nEvents, nStarts, nSets, nUnSets, nChanges, ghostVars>>

\* Stop takes the lock and passes the started check
StopEnter ==
  /\ pc[Main] = "idle"
  /\ statusChangeLock = "free"
  /\ started
  /\ nStops < limit.stops
  /\ nStops' = nStops + 1
  /\ statusChangeLock' = "main"
  /\ pc' = [pc EXCEPT ![Main] = "stop_chk"]
  /\ idx' = 0
  /\ UNCHANGED <<fwVars, cntVars, regVars, zkVars, res, cur, key, taskVars, wlVars,
                 limit, nLoss, nEvents, nStarts, nSets, nUnSets, nChanges, ghostVars>>

\* stopBgTasks called by Stop: the loop test i < shutdownConsumers.Load()
StopBgCheck ==
  /\ pc[Main] = "stop_chk"
  /\ pc' = [pc EXCEPT ![Main] = IF idx < shutdownConsumers THEN "stop_send" ELSE "stop_fin"]
  /\ UNCHANGED <<fwVars, cntVars, regVars, zkVars, statusChangeLock, res, idx, cur, key,
                 taskVars, wlVars, envVars, ghostVars>>

stopStartedKept == started

\* what Stop assigns to started and to state
stopStarted == FALSE

stopState == "Disconnected"

\* the goroutine Stop spawns: NotifyShutdown, then clearAllListeners; reg
\* records the listeners registered at that time
newStopTask ==
  [pc |-> "sg_new", phase |-> "notify", todo |-> {}, cur |-> 0,
   reg |-> {shutdownListeners[k] : k \in DOMAIN shutdownListeners}]

\* the rest of Stop: spawn the shutdown notification, reset started and
\* state, and on return close the session and release the lock
StopFinish ==
  /\ pc[Main] = "stop_fin"
  /\ stopTasks' = BagAdd(stopTasks, newStopTask)
  /\ started' = stopStarted
  /\ state' = stopState
  /\ events' = closedEvents
  /\ eventsClosed' = TRUE
  /\ zkState' = "Disconnected"
  /\ watchFns' = turnedAll(watchFns, "close")
  /\ statusChangeLock' = "free"
  /\ pc' = [pc EXCEPT ![Main] = "idle"]
  /\ res' = [res EXCEPT ![Main] = "nil"]
  /\ idx' = 0
  /\ stopped' = TRUE
  /\ UNCHANGED <<previousState, cn, reconnectionTimeoutMs, cntVars, regVars, cur, key,
                 eventTasks, stateTasks, notifiers, wlVars, envVars,
                 via, forwarded, lostSinceSet, matching>>

\* c.shutdown <- true sent by Stop's stopBgTasks, received by a watchEvents
StopToEvents(e) ==
  /\ pc[Main] = "stop_send"
  /\ e.pc = "we_sel"
  /\ pc' = [pc EXCEPT ![Main] = "stop_chk"]
  /\ idx' = idx + 1
  /\ eventTasks' = Move(eventTasks, e, [e EXCEPT !.pc = "we_exit"])
  /\ UNCHANGED <<fwVars, cntVars, regVars, zkVars, statusChangeLock, res, cur, key,
                 stateTasks, notifiers, stopTasks, watchFns, wlVars, envVars, ghostVars>>

\* c.shutdown <- true sent by Stop's stopBgTasks, received by a connectionWatcher
StopToWatcher(c) ==
  /\ pc[Main] = "stop_send"
  /\ c.pc = "cw_sel"
  /\ pc' = [pc EXCEPT ![Main] = "stop_chk"]
  /\ idx' = idx + 1
  /\ stateTasks' = Move(stateTasks, c, [c EXCEPT !.pc = "cw_exit"])
  /\ UNCHANGED <<fwVars, cntVars, regVars, zkVars, statusChangeLock, res, cur, key,
                 eventTasks, notifiers, stopTasks, watchFns, wlVars, envVars, ghostVars>>

\* c.shutdown <- true sent by Stop's stopBgTasks, received by a WaitConnection
\* caller, which returns nil
StopToWaiter(w) ==
  /\ pc[Main] = "stop_send"
  /\ pc[w] = "wc_sel"
  /\ pc' = [pc EXCEPT ![Main] = "stop_chk", ![w] = "wc_ret"]
  /\ idx' = idx + 1
  /\ res' = [res EXCEPT ![w] = "nil"]
  /\ via' = [via EXCEPT ![w] = "shutdown"]
  /\ UNCHANGED <<fwVars, cntVars, regVars, zkVars, statusChangeLock, cur, key,
                 taskVars, wlVars, envVars, stopped, forwarded, lostSinceSet, matching>>

\* c.shutdown <- true sent by invalidateCn's stopBgTasks, received by a watchEvents
InvalidateToEvents(c, e) ==
  /\ c.pc = "cw_sbsend"
  /\ e.pc = "we_sel"
  /\ stateTasks' = Move(stateTasks, c, [c EXCEPT !.pc = "cw_sbchk", !.i = @ + 1])
  /\ eventTasks' = Move(eventTasks, e, [e EXCEPT !.pc = "we_exit"])
  /\ UNCHANGED <<fwVars, cntVars, regVars, zkVars, statusChangeLock, callVars,
                 notifiers, stopTasks, watchFns, wlVars, envVars, ghostVars>>

\* c.shutdown <- true sent by invalidateCn's stopBgTasks, received by another
\* connectionWatcher
InvalidateToWatcher(c, d) ==
  /\ c.pc = "cw_sbsend"
  /\ d.pc = "cw_sel"
  /\ stateTasks' = Move(Move(stateTasks, c, [c EXCEPT !.pc = "cw_sbchk", !.i = @ + 1]),
                        d, [d EXCEPT !.pc = "cw_exit"])
  /\ UNCHANGED <<fwVars, cntVars, regVars, zkVars, statusChangeLock, callVars,
                 eventTasks, notifiers, stopTasks, watchFns, wlVars, envVars, ghostVars>>

\* c.shutdown <- true sent by invalidateCn's stopBgTasks, received by a
\* WaitConnection caller, which returns nil
InvalidateToWaiter(c, w) ==
  /\ c.pc = "cw_sbsend"
  /\ pc[w] = "wc_sel"
  /\ stateTasks' = Move(stateTasks, c, [c EXCEPT !.pc = "cw_sbchk", !.i = @ + 1])
  /\ pc' = [pc EXCEPT ![w] = "wc_ret"]
  /\ res' = [res EXCEPT ![w] = "nil"]
  /\ via' = [via EXCEPT ![w] = "shutdown"]
  /\ UNCHANGED <<fwVars, cntVars, regVars, zkVars, statusChangeLock, idx, cur, key,
                 eventTasks, notifiers, stopTasks, watchFns, wlVars, envVars, stopped, forwarded, lostSinceSet, matching>>

\* ----------------------------------------------------------------- watcher
\* slices.Contains(w.types, e.Type): the data-change event of the node is of
\* a registered type, the not-watching event of a closed session is not
wanted(o) == o = "fired"

\* cn.ExistsW answers once the session is connected, and fails once the
\* session is closed; in between the request waits in the session's queue
existsWReturns == eventsClosed \/ isConnectedState(zkState)

newWatchFn(o) == [obj |-> o, pc |-> "fn_sel", out |-> "armed"]

\* watchFn: case e := <-out, with the forward to outCh that follows when the
\* type is registered; the consumer reads outCh.  A watch channel carries one
\* event and is closed after it.
FnRecv(f) ==
  /\ f.pc = "fn_sel"
  /\ f.out \in {"fired", "bogus"}
  /\ forwarded' = IF wanted(f.out) THEN forwarded + 1 ELSE forwarded
  /\ watchFns' = Move(watchFns, f, [f EXCEPT !.out = "closed"])
  /\ UNCHANGED <<fwVars, cntVars, regVars, zkVars, statusChangeLock, callVars,
                 eventTasks, stateTasks, notifiers, stopTasks, wlVars, envVars,
                 stopped, via, lostSinceSet, matching>>

\* the entries of a registry a range still has to visit: all of them when
\* the range starts, later those not visited that are still registered
left(r, reg) == IF r.pc \in {"nt_new", "sg_new"} THEN DOMAIN reg ELSE r.todo \cap DOMAIN reg

\* a NotifyStatusChange goroutine after a listener returned: the next
\* listener, or the end of the goroutine
ntDone(n) ==
  IF left(n, statusChangeListeners) = {}
    THEN BagDel(notifiers, n)
    ELSE Move(notifiers, n, [n EXCEPT !.pc = "nt_pick", !.cur = 0])

\* NotifyStatusChange ranges over the status-change registry:
\* listener.OnStatusChange(c, c.previousState, c.state) on the next listener,
\* the two states being the ones the framework holds now;
\* OnStatusChange: if w.watching
NtVisit(n) ==
  /\ n.pc \in {"nt_new", "nt_pick"}
  /\ IF left(n, statusChangeListeners) = {}
       THEN notifiers' = BagDel(notifiers, n)
       ELSE \E k \in left(n, statusChangeListeners) :
              LET o == statusChangeListeners[k]
                  m == [n EXCEPT !.pc = "nt_pick",
                                 !.todo = left(n, statusChangeListeners) \ {k}]
              IN notifiers' = IF watching[o]
                                THEN Move(notifiers, n, [m EXCEPT !.pc = "nt_if1", !.cur = o])
                                ELSE Move(notifiers, n, m)
  /\ UNCHANGED <<fwVars, cntVars, regVars, zkVars, statusChangeLock, callVars,
                 eventTasks, stateTasks, stopTasks, watchFns, wlVars, envVars, ghostVars>>

\* OnStatusChange of a listener not marked disconnected:
\* if !w.disconnected && !zkFramework.Connected(), then w.disconnected = true
\* and the send on shutdownCh; when connected the second if is false as well
NtLost(n) ==
  /\ n.pc = "nt_if1"
  /\ ~disconnected[n.cur]
  /\ CanRLock
  /\ IF ~Connected
       THEN /\ disconnected' = [disconnected EXCEPT ![n.cur] = TRUE]
            /\ notifiers' = Move(notifiers, n, [n EXCEPT !.pc = "nt_send"])
       ELSE /\ disconnected' = disconnected
            /\ notifiers' = ntDone(n)
  /\ UNCHANGED <<fwVars, cntVars, regVars, zkVars, statusChangeLock, callVars,
                 eventTasks, stateTasks, stopTasks, watchFns, watchListeners, watching,
                 envVars, ghostVars>>

\* w.shutdownCh <- true sent by OnStatusChange, received by a watchFn of the
\* listener, which returns
NtSendTo(n, f) ==
  /\ n.pc = "nt_send"
  /\ f.pc = "fn_sel"
  /\ f.obj = n.cur
  /\ notifiers' = Move(notifiers, n, [n EXCEPT !.pc = "nt_if2"])
  /\ watchFns' = BagDel(watchFns, f)
  /\ UNCHANGED <<fwVars, cntVars, regVars, zkVars, statusChangeLock, callVars,
                 eventTasks, stateTasks, stopTasks, wlVars, envVars, ghostVars>>

\* OnStatusChange of a listener marked disconnected:
\* if w.disconnected && zkFramework.Connected(), then w.Start and
\* w.disconnected = false
NtRearm(n) ==
  /\ n.pc \in {"nt_if1", "nt_if2"}
  /\ disconnected[n.cur]
  /\ CanRLock
  /\ notifiers' = ntDone(n)
  /\ IF Connected
       THEN /\ existsWReturns
            /\ disconnected' = [disconnected EXCEPT ![n.cur] = FALSE]
            /\ IF existsW
                 THEN /\ watching' = [watching EXCEPT ![n.cur] = TRUE]
                      /\ watchFns' = BagAdd(watchFns, newWatchFn(n.cur))
                 ELSE UNCHANGED <<watching, watchFns>>
       ELSE UNCHANGED <<disconnected, watching, watchFns>>
  /\ UNCHANGED <<fwVars, cntVars, regVars, zkVars, statusChangeLock, callVars,
                 eventTasks, stateTasks, stopTasks, watchListeners, envVars, ghostVars>>

\* the second if of OnStatusChange when another goroutine has reset
\* w.disconnected in the meantime: nothing to do
NtSkip(n) ==
  /\ n.pc = "nt_if2"
  /\ ~disconnected[n.cur]
  /\ notifiers' = ntDone(n)
  /\ UNCHANGED <<fwVars, cntVars, regVars, zkVars, statusChangeLock, callVars,
                 eventTasks, stateTasks, stopTasks, watchFns, wlVars, envVars, ghostVars>>

\* the registry a phase of Stop's goroutine ranges over
phaseMap(ph) == IF ph = "clearStatus" THEN statusChangeListeners ELSE shutdownListeners

\* Stop's goroutine ranges over the shutdown registry (NotifyShutdown), then
\* over the status-change registry and over the shutdown registry again
\* (clearAllListeners): OnShutdown stops a listener that is watching,
\* clearAllListeners stops every listener.  watchListener.Stop:
\* w.watching = false, then the send on shutdownCh
SgVisit(s) ==
  /\ s.pc \in {"sg_new", "sg_pick"}
  /\ \E k \in left(s, phaseMap(s.phase)) :
       LET o == phaseMap(s.phase)[k]
           t == [s EXCEPT !.pc = "sg_pick", !.todo = left(s, phaseMap(s.phase)) \ {k}]
       IN IF s.phase = "notify" /\ ~watching[o]
            THEN /\ stopTasks' = Move(stopTasks, s, t)
                 /\ watching' = watching
            ELSE /\ stopTasks' = Move(stopTasks, s, [t EXCEPT !.pc = "sg_send", !.cur = o])
                 /\ watching' = [watching EXCEPT ![o] = FALSE]
  /\ UNCHANGED <<fwVars, cntVars, regVars, zkVars, statusChangeLock, callVars,
                 eventTasks, stateTasks, notifiers, watchFns, watchListeners, disconnected,
                 envVars, ghostVars>>

\* w.shutdownCh <- true sent by watchListener.Stop in Stop's goroutine,
\* received by a watchFn of the listener, which returns
SgSendTo(s, f) ==
  /\ s.pc = "sg_send"
  /\ f.pc = "fn_sel"
  /\ f.obj = s.cur
  /\ stopTasks' = Move(stopTasks, s, [s EXCEPT !.pc = "sg_pick", !.cur = 0])
  /\ watchFns' = BagDel(watchFns, f)
  /\ UNCHANGED <<fwVars, cntVars, regVars, zkVars, statusChangeLock, callVars,
                 eventTasks, stateTasks, notifiers, wlVars, envVars, ghostVars>>

\* a range of Stop's goroutine is over.  After NotifyShutdown comes the range
\* of clearAllListeners over the status-change registry, after it the
\* registry is replaced by an empty one and the range over the shutdown
\* registry follows, after it that registry is replaced and the goroutine
\* ends.  A range over an empty registry is over at once.
SgNextPhase(s) ==
  /\ s.pc \in {"sg_new", "sg_pick"}
  /\ left(s, phaseMap(s.phase)) = {}
  /\ CASE s.phase = "notify" /\ statusChangeListeners # EmptyMap ->
            /\ stopTasks' = Move(stopTasks, s, [s EXCEPT !.pc = "sg_pick", !.phase = "clearStatus",
                                                         !.todo = DOMAIN statusChangeListeners])
            /\ UNCHANGED regVars
       [] s.phase # "clearShutdown" /\ (s.phase = "clearStatus" \/ statusChangeListeners = EmptyMap)
            /\ shutdownListeners # EmptyMap ->
            /\ stopTasks' = Move(stopTasks, s, [s EXCEPT !.pc = "sg_pick", !.phase = "clearShutdown",
                                                         !.todo = DOMAIN shutdownListeners])
            /\ statusChangeListeners' = EmptyMap
            /\ UNCHANGED shutdownListeners
       [] OTHER ->
            /\ stopTasks' = BagDel(stopTasks, s)
            /\ statusChangeListeners' = EmptyMap
            /\ shutdownListeners' = EmptyMap
  /\ UNCHANGED <<fwVars, cntVars, zkVars, statusChangeLock, callVars,
                 eventTasks, stateTasks, notifiers, watchFns, wlVars, envVars, ghostVars>>

\* watcher.Set: a new listener replaces the table entry of the key, is added
\* to the shutdown registry and to the status-change registry, and is started
Set(k) ==
  /\ pc[Main] = "idle"
  /\ cn # 0
  /\ nSets < limit.sets
  /\ nSets' = nSets + 1
  /\ watchListeners' = MapPut(watchListeners, k, nSets + 1)
  /\ CASE k \in DOMAIN shutdownListeners ->
            /\ res' = [res EXCEPT ![Main] = "ListenerAlreadyExists"]
            /\ UNCHANGED <<regVars, watching, watchFns>>
       [] k \notin DOMAIN shutdownListeners /\ k \in DOMAIN statusChangeListeners ->
            /\ res' = [res EXCEPT ![Main] = "ListenerAlreadyExists"]
            /\ UNCHANGED <<regVars, watching, watchFns>>
       [] OTHER ->
            /\ existsWReturns
            /\ shutdownListeners' = MapPut(shutdownListeners, k, nSets + 1)
            /\ statusChangeListeners' = MapPut(statusChangeListeners, k, nSets + 1)
            /\ IF existsW
                 THEN /\ watching' = [watching EXCEPT ![nSets + 1] = TRUE]
                      /\ watchFns' = BagAdd(watchFns, newWatchFn(nSets + 1))
                      /\ res' = [res EXCEPT ![Main] = "nil"]
                 ELSE /\ res' = [res EXCEPT ![Main] = "UnknownNode"]
                      /\ UNCHANGED <<watching, watchFns>>
  /\ UNCHANGED <<fwVars, cntVars, zkVars, statusChangeLock, pc, idx, cur, key,
                 eventTasks, stateTasks, notifiers, stopTasks, disconnected,
                 limit, nLoss, nEvents, nStarts, nStops, nUnSets, nChanges, ghostVars>>

\* watcher.UnSet up to the send of watchListener.Stop on shutdownCh
UnSet(k) ==
  /\ pc[Main] = "idle"
  /\ k \in DOMAIN watchListeners
  /\ nUnSets < limit.unsets
  /\ nUnSets' = nUnSets + 1
  /\ watching' = [watching EXCEPT ![watchListeners[k]] = FALSE]
  /\ pc' = [pc EXCEPT ![Main] = "unset_send"]
  /\ cur' = watchListeners[k]
  /\ key' = k
  /\ UNCHANGED <<fwVars, cntVars, regVars, zkVars, statusChangeLock, res, idx,
                 taskVars, watchListeners, disconnected,
                 limit, nLoss, nEvents, nStarts, nStops, nSets, nChanges, ghostVars>>

\* w.shutdownCh <- true sent by UnSet, received by a watchFn of the listener,
\* which returns; UnSet then removes the listener from both registries and
\* from the table
UnSetSendTo(f) ==
  /\ pc[Main] = "unset_send"
  /\ f.pc = "fn_sel"
  /\ f.obj = cur
  /\ watchFns' = BagDel(watchFns, f)
  /\ shutdownListeners' = MapDel(shutdownListeners, key)
  /\ statusChangeListeners' = MapDel(statusChangeListeners, key)
  /\ watchListeners' = MapDel(watchListeners, key)
  /\ pc' = [pc EXCEPT ![Main] = "idle"]
  /\ res' = [res EXCEPT ![Main] = "nil"]
  /\ cur' = 0
  /\ key' = "-"
  /\ UNCHANGED <<fwVars, cntVars, zkVars, statusChangeLock, idx,
                 eventTasks, stateTasks, notifiers, stopTasks, watching, disconnected,
                 envVars, ghostVars>>


\* ------------------------------------------------------ listener registries
\* the listeners a test registers: two of them have the same id, and the
\* callback of one returns an error
MockListeners ==
  {[ID |-> "a", fails |-> FALSE], [ID |-> "a", fails |-> TRUE], [ID |-> "b", fails |-> FALSE]}

\* no call of the listener API has been made
NoCall ==
  [op |-> "-", kind |-> "-", l |-> [ID |-> "-", fails |-> FALSE], todo |-> {},
   status0 |-> EmptyMap, shutdown0 |-> EmptyMap, int0 |-> EmptyMap]

\* a second framework with no listener
NoPeer == [status |-> EmptyMap, shutdown |-> EmptyMap]

\* no test listener was called and no call of the listener API was made
NoApiCalls ==
  /\ interactions = [x \in {"status", "shutdown"} \X MockListeners |-> 0]
  /\ rcall = NoCall
  /\ outCh = {}
  /\ opTasks = EmptyMap
  /\ peer = NoPeer

\* a call of the listener API begins: the registries and the interactions
\* of the listeners as the call finds them
called(op, kind, l) ==
  [NoCall EXCEPT !.op = op, !.kind = kind, !.l = l,
                 !.status0 = statusChangeListeners, !.shutdown0 = shutdownListeners,
                 !.int0 = interactions]

\* what a call of the listener API leaves alone
registryKept ==
  <<fwVars, cntVars, zkVars, statusChangeLock, pc, idx, cur, key, taskVars, wlVars,
    envVars, ghostVars, cacheVars, outCh, opTasks, peer, attempts>>

\* an Add that puts the listener in the registry whatever the registry holds
addAlways(reg, l) == [reg |-> MapPut(reg, l.ID, l), err |-> "nil"]

\* AddStatusChangeListener, AddShutdownListener: the registry after the
\* call and the error returned
addListener(reg, l) ==
  IF l.ID \in DOMAIN reg
    THEN [reg |-> reg, err |-> "ListenerAlreadyExists"]
    ELSE [reg |-> MapPut(reg, l.ID, l), err |-> "nil"]

\* RemoveStatusChangeListener, RemoveShutdownListener
removeListener(reg, l) ==
  IF l.ID \notin DOMAIN reg
    THEN [reg |-> reg, err |-> "ListenerNotFound"]
    ELSE [reg |-> MapDel(reg, l.ID), err |-> "nil"]

AddStatusChangeListener(l) ==
  /\ pc[Main] = "idle"
  /\ LET r == addListener(statusChangeListeners, l)
     IN /\ statusChangeListeners' = r.reg
        /\ res' = [res EXCEPT ![Main] = r.err]
  /\ rcall' = called("add", "status", l)
  /\ UNCHANGED <<registryKept, shutdownListeners, interactions>>

RemoveStatusChangeListener(l) ==
  /\ pc[Main] = "idle"
  /\ LET r == removeListener(statusChangeListeners, l)
     IN /\ statusChangeListeners' = r.reg
        /\ res' = [res EXCEPT ![Main] = r.err]
  /\ rcall' = called("remove", "status", l)
  /\ UNCHANGED <<registryKept, shutdownListeners, interactions>>

AddShutdownListener(l) ==
  /\ pc[Main] = "idle"
  /\ LET r == addListener(shutdownListeners, l)
     IN /\ shutdownListeners' = r.reg
        /\ res' = [res EXCEPT ![Main] = r.err]
  /\ rcall' = called("add", "shutdown", l)
  /\ UNCHANGED <<registryKept, statusChangeListeners, interactions>>

RemoveShutdownListener(l) ==
  /\ pc[Main] = "idle"
  /\ LET r == removeListener(shutdownListeners, l)
     IN /\ shutdownListeners' = r.reg
        /\ res' = [res EXCEPT ![Main] = r.err]
  /\ rcall' = called("remove", "shutdown", l)
  /\ UNCHANGED <<registryKept, statusChangeListeners, interactions>>

\* the registry a call of the listener API works on
registryOf(kind) == IF kind = "status" THEN statusChangeListeners ELSE shutdownListeners

\* the callbacks of the test listeners count their calls; the counts are
\* kept below a bound
canNotify(kind) ==
  \A l \in MockListeners : interactions[<<kind, l>>] < MaxInteractions

\* a test calls NotifyStatusChange: the range over the registry begins
NotifyStatusChange ==
  /\ pc[Main] = "idle"
  /\ canNotify("status")
  /\ rcall' = [called("notify", "status", NoCall.l) EXCEPT !.todo = DOMAIN statusChangeListeners]
  /\ pc' = [pc EXCEPT ![Main] = "notify"]
  /\ UNCHANGED <<fwVars, cntVars, regVars, zkVars, statusChangeLock, res, idx, cur, key,
                 taskVars, wlVars, envVars, ghostVars, cacheVars, interactions, outCh, opTasks, peer, attempts>>

\* a test calls NotifyShutdown
NotifyShutdown ==
  /\ pc[Main] = "idle"
  /\ canNotify("shutdown")
  /\ rcall' = [called("notify", "shutdown", NoCall.l) EXCEPT !.todo = DOMAIN shutdownListeners]
  /\ pc' = [pc EXCEPT ![Main] = "notify"]
  /\ UNCHANGED <<fwVars, cntVars, regVars, zkVars, statusChangeLock, res, idx, cur, key,
                 taskVars, wlVars, envVars, ghostVars, cacheVars, interactions, outCh, opTasks, peer, attempts>>

\* what the range does after a callback returned an error, in a Notify that
\* gives up at the first error
todoUntilError(l, rest) == IF l.fails THEN {} ELSE rest

\* what the range of NotifyStatusChange and NotifyShutdown does after a
\* callback: its error is logged and the range goes on
todoAfter(l, rest) == rest

\* the body of the range: the callback of the next listener is called, and
\* counts the call
NotifyNext ==
  /\ pc[Main] = "notify"
  /\ \E k \in rcall.todo \cap DOMAIN registryOf(rcall.kind) :
       LET l == registryOf(rcall.kind)[k]
       IN /\ interactions' = [interactions EXCEPT ![<<rcall.kind, l>>] = @ + 1]
          /\ rcall' = [rcall EXCEPT !.todo = todoAfter(l, rcall.todo \ {k})]
  /\ UNCHANGED <<fwVars, cntVars, regVars, zkVars, statusChangeLock, callVars,
                 taskVars, wlVars, envVars, ghostVars, cacheVars, outCh, opTasks, peer, attempts>>

\* the range is over and the call returns
NotifyReturn ==
  /\ pc[Main] = "notify"
  /\ rcall.todo \cap DOMAIN registryOf(rcall.kind) = {}
  /\ pc' = [pc EXCEPT ![Main] = "idle"]
  /\ rcall' = [rcall EXCEPT !.op = "notified"]
  /\ UNCHANGED <<fwVars, cntVars, regVars, zkVars, statusChangeLock, res, idx, cur, key,
                 taskVars, wlVars, envVars, ghostVars, cacheVars, interactions, outCh, opTasks, peer, attempts>>

\* ------------------------------------------------------------------- cache
\* The cache of pkg/cache on a framework that is started and connected.  One
\* caller issues Get and Clear; each Get of a synchronised cache arms a watch
\* with watcher.Set and spawns a refresh goroutine, kept in the bag
\* refreshTasks.  The unbuffered channel evictPathCh and the output channel
\* of each watch are rendezvous.

\* node names the caller asks for
Names == {"A", "B", "C"}

\* EvictionPolicy
EvictLeastRecentlyUsed == 0
EvictLeastFrequentlyUsed == 1
EvictRandomly == 2

\* path.Join on paths kept as sequences of segments: the root namespace "/"
\* is the empty sequence
Join(a, b) == a \o b

\* Cache.Get, Cache.IsCached: the key of a node name in the cache
actualPath(n) == Join(namespace, <<n>>)

\* operation.Get joins the namespace and the segments of the path it is given
getPath(p) == Join(namespace, p)

\* watcher.Set and watcher.UnSet: the path watched for a node name, and the
\* id built from the sorted event types and that path
watchPath(n) == Join(namespace, <<n>>)

namePartsToID(p) == <<"3">> \o p

\* the bytes a node holds at a version: the data grows by a byte a version
dataOf(q, v) == [i \in 1..v |-> q[Len(q)]]

\* getNode: cn.Get(path) fails when the node does not exist or when the
\* request is lost (fail), and yields the data of the node otherwise
getNode(q, fail) ==
  IF fail \/ q \notin DOMAIN nodes
    THEN [err |-> TRUE, data |-> <<>>]
    ELSE [err |-> FALSE, data |-> dataOf(q, nodes[q])]

\* the outcomes the remote service may still give to a request
failChoices == IF nFails < limit.fails THEN {FALSE, TRUE} ELSE {FALSE}

\* the sum of len(data) over the entries S of the map m
RECURSIVE sumLen(_, _)
sumLen(m, S) ==
  IF S = {} THEN 0
  ELSE LET p == CHOOSE p \in S : TRUE IN Len(m[p]) + sumLen(m, S \ {p})

\* refreshSizeInBytes: the size it stores for the map m
refreshSizeInBytes(m) == sumLen(m, DOMAIN m)

testExceedingResources == sizeInBytes > maxSizeInBytes

\* evictLRU: the paths the range over cacheUsage can end on, the clock
\* reading t: a usage below t that no other usage is below
evictLRU(t) ==
  {p \in DOMAIN cacheUsage :
     /\ cacheUsage[p] < t
     /\ \A q \in DOMAIN cacheUsage : cacheUsage[p] <= cacheUsage[q]}

\* an eviction by the largest frequency
evictMostFrequentlyUsed ==
  {p \in DOMAIN cacheUsage : \A q \in DOMAIN cacheUsage : cacheUsage[p] >= cacheUsage[q]}

\* evictLFU: the same with the frequencies, every one of which is below
\* math.MaxInt64
evictLFU ==
  {p \in DOMAIN cacheUsage : \A q \in DOMAIN cacheUsage : cacheUsage[p] <= cacheUsage[q]}

\* evictRandomly: the first path the range over the cache yields
evictRandomly == DOMAIN cache

\* evictByPolicy: the paths it may hand to evict; none at all for a value
\* that is no policy
evictByPolicy(t) ==
  CASE evictionPolicy = EvictLeastRecentlyUsed -> evictLRU(t)
    [] evictionPolicy = EvictLeastFrequentlyUsed -> evictLFU
    [] evictionPolicy = EvictRandomly -> evictRandomly
    [] OTHER -> {}

\* whether the policy reads the clock
timed == evictionPolicy = EvictLeastRecentlyUsed

\* initCacheUsageByPolicy at the clock reading t
initCacheUsageByPolicy(u, p, t) ==
  CASE evictionPolicy = EvictLeastFrequentlyUsed -> MapPut(u, p, 1)
    [] evictionPolicy = EvictLeastRecentlyUsed -> MapPut(u, p, t)
    [] OTHER -> u

\* incrementUsageByPolicy at the clock reading t; the usage of a path with no
\* entry in the map reads as zero
incrementUsageByPolicy(u, p, t) ==
  CASE evictionPolicy = EvictLeastFrequentlyUsed ->
         MapPut(u, p, (IF p \in DOMAIN u THEN u[p] ELSE 0) + 1)
    [] evictionPolicy = EvictLeastRecentlyUsed -> MapPut(u, p, t)
    [] OTHER -> u

\* the caller between two calls
Idle == [pc |-> "idle", name |-> "-", path |-> <<>>, victim |-> <<>>, todo |-> {}]

\* the reads of the example of the least-frequently-used policy, in order
Pattern == <<"A", "A", "A", "B", "B", "C">>

\* how far the calls made on the cache follow Pattern: k when they were the
\* first k reads of it and nothing else, -1 once they left it
followed(k, op, p) ==
  IF /\ op \in {"hit", "miss"}
     /\ k >= 0
     /\ k < Len(Pattern)
     /\ p = actualPath(Pattern[k + 1])
  THEN k + 1 ELSE -1

\* what the last call of the caller, or the last refresh, saw and did: the
\* cache and the usage map when it began, the remote fetches it made, the
\* paths it evicted, what it returned, and how far the calls follow Pattern
NoObs ==
  [op |-> "-", path |-> <<>>, fetches |-> 0, evicted |-> {}, cache0 |-> EmptyMap,
   usage0 |-> EmptyMap, size0 |-> 0, accessed0 |-> EmptyMap, run |-> 0,
   ret |-> [err |-> FALSE, data |-> <<>>]]

began(op, p) ==
  [NoObs EXCEPT !.op = op, !.path = p, !.cache0 = cache, !.usage0 = cacheUsage,
                !.size0 = sizeInBytes, !.accessed0 = accessed,
                !.run = followed(obs.run, op, p)]

\* history of the accesses to the cached paths, as far as the policy looks at
\* it: under least-frequently-used the access count of the entry, 1 when the
\* path is put into the cache and one more with every Get that finds it;
\* under least-recently-used the clock reading when it was put into the cache
\* or last found by a Get.  An evicted path has no history
touched(m, p, t) ==
  CASE evictionPolicy = EvictLeastFrequentlyUsed ->
         MapPut(m, p, (IF p \in DOMAIN m THEN m[p] ELSE 0) + 1)
    [] evictionPolicy = EvictLeastRecentlyUsed -> MapPut(m, p, t)
    [] OTHER -> m

stored(m, p, t) ==
  CASE evictionPolicy = EvictLeastFrequentlyUsed -> MapPut(m, p, 1)
    [] evictionPolicy = EvictLeastRecentlyUsed -> MapPut(m, p, t)
    [] OTHER -> m

dropped(m, v) == MapDel(m, v)

\* the variables of the connection manager and of the session, which the
\* cache leaves alone
coreKept ==
  <<fwVars, cntVars, zkVars, statusChangeLock, callVars, eventTasks, stateTasks,
    notifiers, stopTasks, disconnected, limit, nLoss, nEvents, nStarts, nStops,
    nUnSets, ghostVars, apiVars, attempts>>

\* a Get of a cached path that fetches the node again and returns what it
\* fetched
GetHitRefetch(n) ==
  /\ call.pc = "idle"
  /\ mu = "free"
  /\ nGets < limit.gets
  /\ actualPath(n) \in DOMAIN cache
  /\ nGets' = nGets + 1
  /\ now' = IF timed THEN now + 1 ELSE now
  /\ cacheUsage' = incrementUsageByPolicy(cacheUsage, actualPath(n), now')
  /\ accessed' = touched(accessed, actualPath(n), now')
  /\ obs' = [began("hit", actualPath(n)) EXCEPT
               !.fetches = 1, !.ret = getNode(getPath(actualPath(n)), FALSE)]
  /\ UNCHANGED <<coreKept, regVars, wlVars, watchFns, nSets, nChanges, cfgVars, cache,
                 sizeInBytes, mu, call, refreshTasks, nodes, nClears, nFails>>

\* Get of a cached path: the usage is updated, the cached data returned
GetHit(n) ==
  /\ call.pc = "idle"
  /\ mu = "free"
  /\ nGets < limit.gets
  /\ actualPath(n) \in DOMAIN cache
  /\ nGets' = nGets + 1
  /\ now' = IF timed THEN now + 1 ELSE now
  /\ cacheUsage' = incrementUsageByPolicy(cacheUsage, actualPath(n), now')
  /\ accessed' = touched(accessed, actualPath(n), now')
  /\ obs' = [began("hit", actualPath(n)) EXCEPT
               !.ret = [err |-> FALSE, data |-> cache[actualPath(n)]]]
  /\ UNCHANGED <<coreKept, regVars, wlVars, watchFns, nSets, nChanges, cfgVars, cache,
                 sizeInBytes, mu, call, refreshTasks, nodes, nClears, nFails>>

\* Get of a path that is not cached, up to the fetch: when the size exceeds
\* the budget, evictByPolicy picks a path and evict is called on it, which
\* in a synchronised cache first sends the path on evictPathCh
GetMiss(n) ==
  /\ call.pc = "idle"
  /\ mu = "free"
  /\ nGets < limit.gets
  /\ actualPath(n) \notin DOMAIN cache
  /\ nGets' = nGets + 1
  /\ mu' = "held"
  /\ now' = IF testExceedingResources /\ timed THEN now + 1 ELSE now
  /\ LET p == actualPath(n)
         V == IF testExceedingResources THEN evictByPolicy(now') ELSE {}
         c == [Idle EXCEPT !.pc = "get_fetch", !.name = n, !.path = p]
     IN IF V = {}
          THEN /\ call' = c
               /\ obs' = began("miss", p)
               /\ UNCHANGED <<cache, cacheUsage, accessed>>
          ELSE \E v \in V :
                 IF synched
                   THEN /\ call' = [c EXCEPT !.pc = "get_evict", !.victim = v]
                        /\ obs' = began("miss", p)
                        /\ UNCHANGED <<cache, cacheUsage, accessed>>
                   ELSE /\ call' = c
                        /\ obs' = [began("miss", p) EXCEPT !.evicted = {v}]
                        /\ cache' = MapDel(cache, v)
                        /\ cacheUsage' = MapDel(cacheUsage, v)
                        /\ accessed' = dropped(accessed, v)
  /\ UNCHANGED <<coreKept, regVars, wlVars, watchFns, nSets, nChanges, cfgVars,
                 sizeInBytes, refreshTasks, nodes, nClears, nFails>>

\* evict in a synchronised cache: c.evictPathCh <- zkPath is received by a
\* refresh goroutine in its select, which goes on to UnSet when the path is
\* its own and back to its select otherwise; evict then deletes the path
\* from the cache and from the usage map
EvictSendTo(t) ==
  /\ call.pc \in {"get_evict", "clear_evict"}
  /\ t.pc = "rt_sel"
  /\ refreshTasks' = IF t.path = call.victim
                       THEN Move(refreshTasks, t, [t EXCEPT !.pc = "rt_unset"])
                       ELSE refreshTasks
  /\ cache' = MapDel(cache, call.victim)
  /\ cacheUsage' = MapDel(cacheUsage, call.victim)
  /\ accessed' = dropped(accessed, call.victim)
  /\ call' = [call EXCEPT !.pc = IF call.pc = "get_evict" THEN "get_fetch" ELSE "clear_loop",
                          !.victim = <<>>]
  /\ obs' = [obs EXCEPT !.evicted = @ \cup {call.victim}]
  /\ UNCHANGED <<coreKept, regVars, wlVars, watchFns, nSets, nChanges, cfgVars,
                 sizeInBytes, mu, nodes, now, nGets, nClears, nFails>>

\* a Get that arms a watch whatever the options say
unwatchedNever == FALSE

\* Get: if !c.synched, the data is returned with no watch and no refresh
\* goroutine
unwatched == ~synched

\* Get after the eviction test: operation.Get; on an error Get returns it,
\* otherwise the data is stored, the usage initialised and the size
\* refreshed, and a cache that is not synchronised returns the data
GetFetch ==
  /\ call.pc = "get_fetch"
  /\ \E fail \in failChoices :
       LET r == getNode(getPath(call.path), fail)
       IN /\ nFails' = IF fail THEN nFails + 1 ELSE nFails
          /\ obs' = [obs EXCEPT !.fetches = @ + 1, !.ret = r]
          /\ IF r.err
               THEN /\ call' = Idle
                    /\ mu' = "free"
                    /\ UNCHANGED <<cache, cacheUsage, sizeInBytes, now, accessed>>
               ELSE /\ cache' = MapPut(cache, call.path, r.data)
                    /\ now' = IF timed THEN now + 1 ELSE now
                    /\ cacheUsage' = initCacheUsageByPolicy(cacheUsage, call.path, now')
                    /\ sizeInBytes' = refreshSizeInBytes(cache')
                    /\ accessed' = stored(accessed, call.path, now')
                    /\ IF unwatched
                         THEN /\ call' = Idle
                              /\ mu' = "free"
                         ELSE /\ call' = [call EXCEPT !.pc = "get_watch"]
                              /\ mu' = mu
  /\ UNCHANGED <<coreKept, regVars, wlVars, watchFns, nSets, nChanges, cfgVars,
                 refreshTasks, nodes, nGets, nClears>>

\* a listener made by watcher.Set: the path it watches and the rank of the
\* call of Set that made it
newListener(n) == [path |-> watchPath(n), n |-> nSets + 1]

\* a refresh goroutine of Get: the node name and the cached path it serves,
\* the listener whose output channel it reads
newRefreshTask(n, o) == [name |-> n, path |-> actualPath(n), out |-> o, pc |-> "rt_sel"]

\* Get in a synchronised cache, after the data is stored: watcher.Set, whose
\* error is dropped, then the refresh goroutine is spawned and Get returns.
\* Set puts a new listener in the table, adds it to the shutdown registry
\* and to the status-change registry, giving up when its id is registered,
\* and starts it: ExistsW arms a watch when the node exists
GetWatch ==
  /\ call.pc = "get_watch"
  /\ LET k == namePartsToID(watchPath(call.name))
         o == newListener(call.name)
     IN /\ nSets' = nSets + 1
        /\ watchListeners' = MapPut(watchListeners, k, o)
        /\ refreshTasks' = BagAdd(refreshTasks, newRefreshTask(call.name, o))
        /\ CASE k \in DOMAIN shutdownListeners ->
                  /\ watching' = MapPut(watching, o, FALSE)
                  /\ UNCHANGED <<regVars, watchFns>>
             [] k \notin DOMAIN shutdownListeners /\ k \in DOMAIN statusChangeListeners ->
                  /\ watching' = MapPut(watching, o, FALSE)
                  /\ UNCHANGED <<regVars, watchFns>>
             [] OTHER ->
                  /\ shutdownListeners' = MapPut(shutdownListeners, k, o)
                  /\ statusChangeListeners' = MapPut(statusChangeListeners, k, o)
                  /\ IF o.path \in DOMAIN nodes
                       THEN /\ watching' = MapPut(watching, o, TRUE)
                            /\ watchFns' = BagAdd(watchFns, newWatchFn(o))
                       ELSE /\ watching' = MapPut(watching, o, FALSE)
                            /\ UNCHANGED watchFns
  /\ call' = Idle
  /\ mu' = "free"
  /\ UNCHANGED <<coreKept, disconnected, nChanges, cfgVars, accessed, cache, cacheUsage, sizeInBytes,
                 nodes, now, nGets, nClears, nFails, obs>>

\* Clear takes the lock and starts its range over the cache
ClearEnter ==
  /\ call.pc = "idle"
  /\ mu = "free"
  /\ nClears < limit.clears
  /\ nClears' = nClears + 1
  /\ mu' = "held"
  /\ call' = [Idle EXCEPT !.pc = "clear_loop", !.todo = DOMAIN cache]
  /\ obs' = began("clear", <<>>)
  /\ UNCHANGED <<coreKept, regVars, wlVars, watchFns, nSets, nChanges, cfgVars, accessed, cache,
                 cacheUsage, sizeInBytes, refreshTasks, nodes, now, nGets, nFails>>

\* the range of Clear calls evict on the next path
ClearVisit ==
  /\ call.pc = "clear_loop"
  /\ \E p \in call.todo \cap DOMAIN cache :
       IF synched
         THEN /\ call' = [call EXCEPT !.pc = "clear_evict", !.victim = p, !.todo = @ \ {p}]
              /\ UNCHANGED <<cache, cacheUsage, obs, accessed>>
         ELSE /\ call' = [call EXCEPT !.todo = @ \ {p}]
              /\ cache' = MapDel(cache, p)
              /\ cacheUsage' = MapDel(cacheUsage, p)
              /\ accessed' = dropped(accessed, p)
              /\ obs' = [obs EXCEPT !.evicted = @ \cup {p}]
  /\ UNCHANGED <<coreKept, regVars, wlVars, watchFns, nSets, nChanges, cfgVars,
                 sizeInBytes, mu, refreshTasks, nodes, now, nGets, nClears, nFails>>

\* the range of Clear is over: the size is refreshed and Clear returns
ClearExit ==
  /\ call.pc = "clear_loop"
  /\ call.todo \cap DOMAIN cache = {}
  /\ sizeInBytes' = refreshSizeInBytes(cache)
  /\ call' = Idle
  /\ mu' = "free"
  /\ UNCHANGED <<coreKept, regVars, wlVars, watchFns, nSets, nChanges, cfgVars, accessed, cache,
                 cacheUsage, refreshTasks, nodes, now, nGets, nClears, nFails, obs>>

\* renew, called by a refresh goroutine that read an event from its output
\* channel: under the lock, operation.Get; on an error the path is deleted
\* from the cache; then the data, nil after an error, is stored under the
\* path and the size is refreshed
renew(p, r) == MapPut(IF r.err THEN MapDel(cache, p) ELSE cache, p, r.data)

RtRenew(t) ==
  /\ t.pc = "rt_renew"
  /\ mu = "free"
  /\ \E fail \in failChoices :
       LET r == getNode(getPath(t.path), fail)
       IN /\ nFails' = IF fail THEN nFails + 1 ELSE nFails
          /\ cache' = renew(t.path, r)
          /\ sizeInBytes' = refreshSizeInBytes(cache')
          /\ obs' = [began("renew", t.path) EXCEPT !.fetches = 1, !.ret = r]
  /\ accessed' = IF t.path \in DOMAIN cache THEN accessed
                 ELSE stored(accessed, t.path, now)
  /\ refreshTasks' = Move(refreshTasks, t, [t EXCEPT !.pc = "rt_sel"])
  /\ UNCHANGED <<coreKept, regVars, wlVars, watchFns, nSets, nChanges, cfgVars,
                 cacheUsage, mu, call, nodes, now, nGets, nClears>>

\* a refresh goroutine that received its own path on evictPathCh calls
\* watcher.UnSet, which looks the listener of the id up in the table and
\* calls Stop on it: w.watching = false, then the send on shutdownCh.  With
\* no listener in the table Stop dereferences a nil pointer
RtUnSet(t) ==
  /\ t.pc = "rt_unset"
  /\ LET k == namePartsToID(watchPath(t.name))
     IN IF k \in DOMAIN watchListeners
          THEN /\ watching' = MapPut(watching, watchListeners[k], FALSE)
               /\ refreshTasks' = Move(refreshTasks, t, [t EXCEPT !.pc = "rt_stop"])
          ELSE /\ watching' = watching
               /\ refreshTasks' = Move(refreshTasks, t, [t EXCEPT !.pc = "rt_panic"])
  /\ UNCHANGED <<coreKept, regVars, watchListeners, disconnected, watchFns, nSets, nChanges,
                 cfgVars, accessed, cache, cacheUsage, sizeInBytes, mu, call, nodes, now, nGets,
                 nClears, nFails, obs>>

\* w.shutdownCh <- true sent by Stop in UnSet is received by the watchFn of
\* the listener, which returns; UnSet then removes the listener of the id
\* from both registries and from the table, and the refresh goroutine closes
\* its output channel and returns
RtStopSendTo(t, f) ==
  /\ t.pc = "rt_stop"
  /\ f.pc = "fn_sel"
  /\ LET k == namePartsToID(watchPath(t.name))
     IN /\ k \in DOMAIN watchListeners
        /\ f.obj = watchListeners[k]
        /\ shutdownListeners' = MapDel(shutdownListeners, k)
        /\ statusChangeListeners' = MapDel(statusChangeListeners, k)
        /\ watchListeners' = MapDel(watchListeners, k)
  /\ watchFns' = BagDel(watchFns, f)
  /\ refreshTasks' = BagDel(refreshTasks, t)
  /\ UNCHANGED <<coreKept, watching, disconnected, nSets, nChanges, cfgVars, accessed, cache, cacheUsage,
                 sizeInBytes, mu, call, nodes, now, nGets, nClears, nFails, obs>>

\* watchFn: case e := <-out, the type of e being one Set was given; the
\* watch of ExistsW carries this one event
FnTake(f) ==
  /\ f.pc = "fn_sel"
  /\ f.out = "fired"
  /\ watchFns' = Move(watchFns, f, [f EXCEPT !.pc = "fn_fwd", !.out = "closed"])
  /\ UNCHANGED <<coreKept, regVars, wlVars, nSets, nChanges, cacheVars>>

\* watchFn: w.outCh <- e is received by the refresh goroutine that reads the
\* output channel of the listener, in its select
FnForwardTo(f, t) ==
  /\ f.pc = "fn_fwd"
  /\ t.pc = "rt_sel"
  /\ t.out = f.obj
  /\ watchFns' = Move(watchFns, f, [f EXCEPT !.pc = "fn_sel"])
  /\ refreshTasks' = Move(refreshTasks, t, [t EXCEPT !.pc = "rt_renew"])
  /\ UNCHANGED <<coreKept, regVars, wlVars, nSets, nChanges, cfgVars, accessed, cache, cacheUsage,
                 sizeInBytes, mu, call, nodes, now, nGets, nClears, nFails, obs>>

\* the watchFn goroutines after the watches armed on path q have fired
firedAt(b, q) ==
  LET hit(r) == IF r.obj.path = q THEN turned(r, "fire") ELSE r
      cnt(x) == LET S == {r \in DOMAIN b : hit(r) = x}
                    sum[T \in SUBSET S] ==
                      IF T = {} THEN 0
                      ELSE LET r == CHOOSE r \in T : TRUE IN b[r] + sum[T \ {r}]
                IN sum[S]
  IN [x \in {hit(r) : r \in DOMAIN b} |-> cnt(x)]

\* a remote client updates the data of the node of a name: the node gets its
\* next version and every watch armed on its path fires
NodeUpdate(n) ==
  /\ nChanges < limit.changes
  /\ watchPath(n) \in DOMAIN nodes
  /\ nChanges' = nChanges + 1
  /\ nodes' = [nodes EXCEPT ![watchPath(n)] = @ + 1]
  /\ watchFns' = firedAt(watchFns, watchPath(n))
  /\ UNCHANGED <<coreKept, regVars, wlVars, nSets, cfgVars, accessed, cache, cacheUsage, sizeInBytes,
                 mu, call, refreshTasks, now, nGets, nClears, nFails, obs>>
\* ------------------------------------------------- the watch manager's API
\* zk.EventType of the events of a node
EventNodeCreated == 1
EventNodeDeleted == 2
EventNodeDataChanged == 3
EventNodeChildrenChanged == 4

\* the node a test of the watch manager works on
TestNode == "node"

\* the event types a test passes to Set and UnSet, in the order it gives them
TypeArgs ==
  { <<>>,
    <<EventNodeDataChanged>>,
    <<EventNodeDeleted, EventNodeCreated>> }

\* slices.Sort(types)
RECURSIVE sortTypes(_)
sortTypes(s) ==
  IF s = <<>> THEN <<>>
  ELSE LET i == CHOOSE i \in 1..Len(s) : \A j \in 1..Len(s) : s[i] <= s[j]
       IN <<s[i]>> \o sortTypes(SubSeq(s, 1, i - 1) \o SubSeq(s, i + 1, Len(s)))

\* the types of a call of Set or UnSet: the four types of a node's events
\* when none is given, sorted
typesOf(ts) ==
  sortTypes(IF Len(ts) = 0
              THEN <<EventNodeDataChanged, EventNodeChildrenChanged,
                     EventNodeCreated, EventNodeDeleted>>
              ELSE ts)

\* fmt.Sprintf("%d", t) of an event type
typeName(t) ==
  CASE t = EventNodeCreated -> "1"
    [] t = EventNodeDeleted -> "2"
    [] t = EventNodeDataChanged -> "3"
    [] t = EventNodeChildrenChanged -> "4"
    [] OTHER -> "0"

\* the id of a watch: the name parts are the sorted types, printed, and the
\* path
watchID(n, ts) == [i \in 1..Len(typesOf(ts)) |-> typeName(typesOf(ts)[i])] \o actualPath(n)

\* &watchListener{ID, shutdownCh, outCh, path, types}: n tells the listeners
\* of one id apart
newWatchListener(n, ts) ==
  [ID |-> watchID(n, ts), path |-> actualPath(n), types |-> typesOf(ts), n |-> nSets + 1]

\* a filter that lets every event through
containsAny(w, t) == TRUE

\* slices.Contains(w.types, e.Type)
containsType(w, t) == \E i \in 1..Len(w.types) : w.types[i] = t

\* the type of the event a watchFn receives from the channel of its watch:
\* the event of the node, or the zero value once the channel is closed
eventType(out) ==
  CASE out = "fired" -> EventNodeDataChanged
    [] out = "deleted" -> EventNodeDeleted
    [] OTHER -> 0

\* what a step of the watch manager's API or of a watch leaves alone
watcherKept ==
  <<fwVars, cntVars, zkVars, statusChangeLock, idx, eventTasks, stateTasks, notifiers,
    stopTasks, disconnected, limit, nLoss, nEvents, nStarts, nStops, ghostVars,
    cfgVars, cache, cacheUsage, sizeInBytes, mu, call, refreshTasks, now, nGets,
    nClears, nFails, obs, accessed, interactions, opTasks, peer, attempts>>

\* the call of Set or UnSet made last, the listener it worked on and the
\* table and the registries as it found them
watcherCalled(op, w) ==
  [op |-> op, l |-> w, table0 |-> watchListeners,
   status0 |-> statusChangeListeners, shutdown0 |-> shutdownListeners]

\* watcher.Set on a connected framework: the new listener is written to the
\* table, added to the shutdown registry and to the status-change registry
\* (the first is undone when the second fails), and started
WatcherSet(n, ts) ==
  /\ pc[Main] = "idle"
  /\ nSets < limit.sets
  /\ nSets' = nSets + 1
  /\ LET w == newWatchListener(n, ts)
         sd == addListener(shutdownListeners, w)
         sc == addListener(statusChangeListeners, w)
     IN /\ watchListeners' = MapPut(watchListeners, w.ID, w)
        /\ rcall' = watcherCalled("set", w)
        /\ CASE sd.err # "nil" ->
                  /\ res' = [res EXCEPT ![Main] = sd.err]
                  /\ watching' = MapPut(watching, w, FALSE)
                  /\ UNCHANGED <<regVars, watchFns>>
             [] sd.err = "nil" /\ sc.err # "nil" ->
                  /\ res' = [res EXCEPT ![Main] = sc.err]
                  /\ watching' = MapPut(watching, w, FALSE)
                  /\ UNCHANGED <<regVars, watchFns>>
             [] OTHER ->
                  /\ shutdownListeners' = sd.reg
                  /\ statusChangeListeners' = sc.reg
                  /\ IF w.path \in DOMAIN nodes
                       THEN /\ watching' = MapPut(watching, w, TRUE)
                            /\ watchFns' = BagAdd(watchFns, newWatchFn(w))
                            /\ res' = [res EXCEPT ![Main] = "nil"]
                       ELSE /\ watching' = MapPut(watching, w, FALSE)
                            /\ res' = [res EXCEPT ![Main] = "UnknownNode"]
                            /\ UNCHANGED watchFns
  /\ UNCHANGED <<watcherKept, pc, cur, key, nUnSets, nChanges, nodes, outCh>>

\* watcher.UnSet of an id the table holds, up to the send of
\* watchListener.Stop on shutdownCh
WatcherUnSet(n, ts) ==
  /\ pc[Main] = "idle"
  /\ nUnSets < limit.unsets
  /\ watchID(n, ts) \in DOMAIN watchListeners
  /\ nUnSets' = nUnSets + 1
  /\ LET w == watchListeners[watchID(n, ts)]
     IN /\ watching' = MapPut(watching, w, FALSE)
        /\ cur' = w
        /\ key' = w.ID
        /\ rcall' = watcherCalled("unset", w)
  /\ pc' = [pc EXCEPT ![Main] = "unset_send"]
  /\ UNCHANGED <<watcherKept, regVars, res, watchListeners, watchFns, nSets, nChanges,
                 nodes, outCh>>

\* watcher.UnSet of an id the table does not hold: watchListeners[id] is a
\* nil pointer, and watchListener.Stop, called on it, panics when it assigns
\* w.watching
WatcherUnSetAbsent(n, ts) ==
  /\ pc[Main] = "idle"
  /\ nUnSets < limit.unsets
  /\ watchID(n, ts) \notin DOMAIN watchListeners
  /\ nUnSets' = nUnSets + 1
  /\ rcall' = watcherCalled("unset", [ID |-> watchID(n, ts)])
  /\ pc' = [pc EXCEPT ![Main] = "panic"]
  /\ UNCHANGED <<watcherKept, regVars, res, cur, key, watchListeners, watching, watchFns,
                 nSets, nChanges, nodes, outCh>>

\* w.shutdownCh <- true of watchListener.Stop, received by a watchFn of the
\* listener in its select, which returns; UnSet goes on: it removes the id
\* from both registries, logging a failure, and from the table
WatcherStopSendTo(f) ==
  /\ pc[Main] = "unset_send"
  /\ f.pc = "fn_sel"
  /\ f.obj = cur
  /\ watchFns' = BagDel(watchFns, f)
  /\ shutdownListeners' = removeListener(shutdownListeners, cur).reg
  /\ statusChangeListeners' = removeListener(statusChangeListeners, cur).reg
  /\ watchListeners' = MapDel(watchListeners, key)
  /\ pc' = [pc EXCEPT ![Main] = "idle"]
  /\ res' = [res EXCEPT ![Main] = "nil"]
  /\ rcall' = [rcall EXCEPT !.op = "unset_done"]
  /\ UNCHANGED <<watcherKept, cur, key, watching, nSets, nUnSets, nChanges, nodes, outCh>>

\* watchFn: case e := <-out, with the test of the type: the event is kept
\* for the send on outCh or dropped.  A watch channel carries one event and
\* is closed after it; a closed channel yields zero events for ever.
WatchFnRecv(f) ==
  /\ f.pc = "fn_sel"
  /\ f.out # "armed"
  /\ watchFns' = IF containsType(f.obj, eventType(f.out))
                   THEN Move(watchFns, f, [f EXCEPT !.pc = "fn_fwd"])
                   ELSE Move(watchFns, f, [f EXCEPT !.out = "closed"])
  /\ UNCHANGED <<watcherKept, regVars, pc, res, cur, key, watchListeners, watching,
                 nSets, nUnSets, nChanges, nodes, rcall, outCh>>

\* w.outCh <- e, received by the test that reads the output channel
WatchFnForward(f) ==
  /\ f.pc = "fn_fwd"
  /\ outCh' = outCh \cup {[to |-> f.obj, type |-> eventType(f.out)]}
  /\ watchFns' = Move(watchFns, f, [f EXCEPT !.pc = "fn_sel", !.out = "closed"])
  /\ UNCHANGED <<watcherKept, regVars, pc, res, cur, key, watchListeners, watching,
                 nSets, nUnSets, nChanges, nodes, rcall>>

\* the watchFn goroutines after the one-shot watches armed on the path q
\* have fired with an event of type t
firedWith(b, q, t) ==
  LET hit(r) == IF r.obj.path = q /\ r.out = "armed" THEN [r EXCEPT !.out = t] ELSE r
      img == {hit(r) : r \in DOMAIN b}
      cnt(x) == LET S == {r \in DOMAIN b : hit(r) = x}
                    sum[T \in SUBSET S] ==
                      IF T = {} THEN 0
                      ELSE LET r == CHOOSE r \in T : TRUE IN b[r] + sum[T \ {r}]
                IN sum[S]
  IN [x \in img |-> cnt(x)]

\* another client creates the node, sets its data or deletes it
NodeCreate(n) ==
  /\ nChanges < limit.changes
  /\ actualPath(n) \notin DOMAIN nodes
  /\ nChanges' = nChanges + 1
  /\ nodes' = MapPut(nodes, actualPath(n), 1)
  /\ UNCHANGED <<watcherKept, regVars, pc, res, cur, key, watchListeners, watching,
                 watchFns, nSets, nUnSets, rcall, outCh>>

NodeSet(n) ==
  /\ nChanges < limit.changes
  /\ actualPath(n) \in DOMAIN nodes
  /\ nChanges' = nChanges + 1
  /\ nodes' = nodes
  /\ watchFns' = firedWith(watchFns, actualPath(n), "fired")
  /\ UNCHANGED <<watcherKept, regVars, pc, res, cur, key, watchListeners, watching,
                 nSets, nUnSets, rcall, outCh>>

NodeDelete(n) ==
  /\ nChanges < limit.changes
  /\ actualPath(n) \in DOMAIN nodes
  /\ nChanges' = nChanges + 1
  /\ nodes' = MapDel(nodes, actualPath(n))
  /\ watchFns' = firedWith(watchFns, actualPath(n), "deleted")
  /\ UNCHANGED <<watcherKept, regVars, pc, res, cur, key, watchListeners, watching,
                 nSets, nUnSets, rcall, outCh>>

\* ------------------------------------- the watch manager with two frameworks
\* what a call of the watch manager on the second framework leaves alone
peerKept ==
  <<fwVars, cntVars, regVars, zkVars, statusChangeLock, idx, eventTasks, stateTasks,
    notifiers, stopTasks, disconnected, limit, nLoss, nEvents, nStarts, nStops,
    ghostVars, cacheVars, interactions, outCh, opTasks, attempts>>

\* watcher.Set called with a second connected framework of the same
\* namespace: the table is the one of the package, the registries are the
\* ones of that framework
PeerSet(n, ts) ==
  /\ pc[Main] = "idle"
  /\ nSets < limit.sets
  /\ nSets' = nSets + 1
  /\ LET w == newWatchListener(n, ts)
         sd == addListener(peer.shutdown, w)
         sc == addListener(peer.status, w)
     IN /\ watchListeners' = MapPut(watchListeners, w.ID, w)
        /\ rcall' = watcherCalled("peer_set", w)
        /\ CASE sd.err # "nil" ->
                  /\ res' = [res EXCEPT ![Main] = sd.err]
                  /\ watching' = MapPut(watching, w, FALSE)
                  /\ UNCHANGED <<peer, watchFns>>
             [] sd.err = "nil" /\ sc.err # "nil" ->
                  /\ res' = [res EXCEPT ![Main] = sc.err]
                  /\ watching' = MapPut(watching, w, FALSE)
                  /\ UNCHANGED <<peer, watchFns>>
             [] OTHER ->
                  /\ peer' = [status |-> sc.reg, shutdown |-> sd.reg]
                  /\ IF w.path \in DOMAIN nodes
                       THEN /\ watching' = MapPut(watching, w, TRUE)
                            /\ watchFns' = BagAdd(watchFns, newWatchFn(w))
                            /\ res' = [res EXCEPT ![Main] = "nil"]
                       ELSE /\ watching' = MapPut(watching, w, FALSE)
                            /\ res' = [res EXCEPT ![Main] = "UnknownNode"]
                            /\ UNCHANGED watchFns
  /\ UNCHANGED <<peerKept, pc, cur, key, nUnSets, nChanges>>

\* watcher.UnSet called with the second framework, for an id the table
\* holds, up to the send of watchListener.Stop on shutdownCh
PeerUnSet(n, ts) ==
  /\ pc[Main] = "idle"
  /\ nUnSets < limit.unsets
  /\ watchID(n, ts) \in DOMAIN watchListeners
  /\ nUnSets' = nUnSets + 1
  /\ LET w == watchListeners[watchID(n, ts)]
     IN /\ watching' = MapPut(watching, w, FALSE)
        /\ cur' = w
        /\ key' = w.ID
        /\ rcall' = watcherCalled("peer_unset", w)
  /\ pc' = [pc EXCEPT ![Main] = "peer_unset_send"]
  /\ UNCHANGED <<peerKept, peer, res, watchListeners, watchFns, nSets, nChanges>>

\* the send of Stop is received by a watchFn of the listener; UnSet removes
\* the id from the registries of the second framework and from the table
PeerStopSendTo(f) ==
  /\ pc[Main] = "peer_unset_send"
  /\ f.pc = "fn_sel"
  /\ f.obj = cur
  /\ watchFns' = BagDel(watchFns, f)
  /\ peer' = [status |-> removeListener(peer.status, cur).reg,
              shutdown |-> removeListener(peer.shutdown, cur).reg]
  /\ watchListeners' = MapDel(watchListeners, key)
  /\ pc' = [pc EXCEPT ![Main] = "idle"]
  /\ res' = [res EXCEPT ![Main] = "nil"]
  /\ rcall' = [rcall EXCEPT !.op = "peer_unset_done"]
  /\ UNCHANGED <<peerKept, cur, key, watching, nSets, nUnSets, nChanges>>

\* ------------------------------------------------- pkg/operation: the CRUD API
Ops == {"Ls", "Create", "Exists", "Delete", "Update", "Get"}

\* what a step of an operation leaves alone
opKept ==
  <<fwVars, cntVars, regVars, zkVars, statusChangeLock, idx, cur, key, taskVars,
    wlVars, envVars, ghostVars, cfgVars, cache, cacheUsage, sizeInBytes, mu, call,
    refreshTasks, now, nGets, nClears, nFails, obs, accessed, interactions, outCh,
    peer, attempts>>

\* the operation called last, the number of operations called so far and
\* whether the framework was started when it was called
opCalled(op, n) == [op |-> op, n |-> n, unstarted |-> ~started]

opCount == IF rcall = NoCall THEN 0 ELSE rcall.n

\* the connection consumers: the error a consumer returns for its path
\* ("nil" once it has a result to send on outChan) and the nodes it leaves
consume(op, q, ns) ==
  CASE op = "Ls" ->
         [err |-> IF q \in DOMAIN ns THEN "nil" ELSE "NoNode", nodes |-> ns]
    [] op = "Get" ->
         [err |-> IF q \in DOMAIN ns THEN "nil" ELSE "NoNode", nodes |-> ns]
    [] op = "Exists" ->
         [err |-> "nil", nodes |-> ns]
    [] op = "Create" ->
         IF q \in DOMAIN ns
           THEN [err |-> "NodeExists", nodes |-> ns]
           ELSE [err |-> "nil", nodes |-> MapPut(ns, q, 1)]
    [] op = "Delete" ->
         IF q \in DOMAIN ns
           THEN [err |-> "nil", nodes |-> MapDel(ns, q)]
           ELSE [err |-> "UnknownNode", nodes |-> ns]
    [] OTHER ->
         IF q \in DOMAIN ns
           THEN [err |-> "nil", nodes |-> MapPut(ns, q, ns[q] + 1)]
           ELSE [err |-> "UnknownNode", nodes |-> ns]

\* the two goroutines of execute: the one that waits for the context and the
\* one that runs the consumer
newCtxTask(n) == [kind |-> "ctx", id |-> n, pc |-> "ctx_wait", err |-> "-"]
newConsumerTask(n, op, q) ==
  [kind |-> "consumer", id |-> n, pc |-> "consume", op |-> op, path |-> q, err |-> "-"]

\* errChan is closed when the goroutine that waits for the context returns
errChanOpen(n) == \E t \in DOMAIN opTasks : t.kind = "ctx" /\ t.id = n

\* Started() of a framework
Started(f) == f

\* Ls, Create, Exists, Delete, Update, Get up to their select: execute makes
\* the two channels; on a framework that is not started it sends
\* ErrFrameworkNotYetStarted on errChan, an unbuffered channel nobody receives
\* from before execute returns; otherwise it starts its goroutines and the
\* caller waits in its select
Execute(op) ==
  /\ pc[Main] = "idle"
  /\ opCount < MaxOps
  /\ rcall' = opCalled(op, opCount + 1)
  /\ IF ~Started(started)
       THEN /\ pc' = [pc EXCEPT ![Main] = "errChan_send"]
            /\ UNCHANGED opTasks
       ELSE /\ pc' = [pc EXCEPT ![Main] = "op_select"]
            /\ opTasks' = BagAdd(BagAdd(opTasks, newCtxTask(opCount + 1)),
                                 newConsumerTask(opCount + 1, op, getPath(<<TestNode>>)))
  /\ UNCHANGED <<opKept, res, nodes>>

\* the consumer's requests to the server
Consume(t) ==
  /\ t.kind = "consumer" /\ t.pc = "consume"
  /\ LET r == consume(t.op, t.path, nodes)
     IN /\ nodes' = r.nodes
        /\ opTasks' = Move(opTasks, t,
                           [t EXCEPT !.pc = IF r.err = "nil" THEN "outChan_send"
                                                             ELSE "errChan_send",
                                     !.err = r.err])
  /\ UNCHANGED <<opKept, pc, res, rcall>>

\* outChan <- result, or errChan <- err, meets the select of the caller
ConsumerSendTo(t) ==
  /\ t.kind = "consumer" /\ t.pc \in {"outChan_send", "errChan_send"}
  /\ t.pc = "errChan_send" => errChanOpen(t.id)
  /\ pc[Main] = "op_select" /\ rcall.n = t.id
  /\ pc' = [pc EXCEPT ![Main] = "idle"]
  /\ res' = [res EXCEPT ![Main] = t.err]
  /\ opTasks' = Move(opTasks, t, [t EXCEPT !.pc = "cancel"])
  /\ UNCHANGED <<opKept, rcall, nodes>>

\* errChan <- err after errChan was closed: the send panics
ConsumerPanic(t) ==
  /\ t.kind = "consumer" /\ t.pc = "errChan_send"
  /\ ~errChanOpen(t.id)
  /\ opTasks' = Move(opTasks, t, [t EXCEPT !.pc = "panic"])
  /\ UNCHANGED <<opKept, pc, res, rcall, nodes>>

\* cancel(), close(outChan): the context of the call is done
ConsumerCancel(t) ==
  /\ t.kind = "consumer" /\ t.pc = "cancel"
  /\ LET b == BagDel(opTasks, t)
         c == [kind |-> "ctx", id |-> t.id, pc |-> "ctx_wait", err |-> "-"]
     IN opTasks' = IF c \in DOMAIN b
                     THEN Move(b, c, [c EXCEPT !.pc = "errChan_send", !.err = "Canceled"])
                     ELSE b
  /\ UNCHANGED <<opKept, pc, res, rcall, nodes>>

\* <-ctx.Done() after the ten seconds of the context
CtxTimeout(t) ==
  /\ t.kind = "ctx" /\ t.pc = "ctx_wait"
  /\ opTasks' = Move(opTasks, t, [t EXCEPT !.pc = "errChan_send",
                                           !.err = "DeadlineExceeded"])
  /\ UNCHANGED <<opKept, pc, res, rcall, nodes>>

\* errChan <- ctx.Err() meets the select of the caller; close(errChan)
CtxSendTo(t) ==
  /\ t.kind = "ctx" /\ t.pc = "errChan_send"
  /\ pc[Main] = "op_select" /\ rcall.n = t.id
  /\ pc' = [pc EXCEPT ![Main] = "idle"]
  /\ res' = [res EXCEPT ![Main] = t.err]
  /\ opTasks' = BagDel(opTasks, t)
  /\ UNCHANGED <<opKept, rcall, nodes>>
\* ------------------------------------------------------------ specification
\* the budget of a run: how many calls of Start, of Stop, connection losses,
\* session events, WaitConnection callers, calls of Set, of UnSet and changes
\* of the watched node it may take
Slice(s, p, l, e, w, t, u, c) ==
  [starts |-> s, stops |-> p, loss |-> l, events |-> e, waiters |-> w,
   sets |-> t, unsets |-> u, changes |-> c]

\* runs of the connection manager alone: a start and a stop, a restart, a
\* lost connection
Slices ==
  { Slice(1, 1, 0, StopEvents, MaxWaiters, 0, 0, 0),
    Slice(2, 1, 0, RestartEvents, MaxWaiters, 0, 0, 0),
    Slice(1, 0, 1, LossEvents, MaxWaiters, 0, 0, 0) }

\* runs with a watch: changes of the node, a lost connection, a Stop, an UnSet
WatchSlices ==
  { Slice(1, 0, 0, WatchEvents, 0, MaxSets, 0, MaxChanges),
    Slice(1, 0, 1, LossEvents, 0, MaxSets, 0, 0),
    Slice(1, 1, 0, WatchEvents, 0, MaxSets, 0, 0),
    Slice(2, 0, 0, WatchEvents, 0, MaxSets, 1, 0) }

\* no cache is built on the framework
NoCache ==
  /\ cache = EmptyMap
  /\ cacheUsage = EmptyMap
  /\ sizeInBytes = 0
  /\ evictionPolicy = EvictLeastRecentlyUsed
  /\ maxSizeInBytes = 1
  /\ synched = TRUE
  /\ mu = "free"
  /\ namespace = <<>>
  /\ call = Idle
  /\ refreshTasks = EmptyMap
  /\ nodes = EmptyMap
  /\ now = 0
  /\ nGets = 0
  /\ nClears = 0
  /\ nFails = 0
  /\ obs = NoObs
  /\ accessed = EmptyMap

\* a framework after Start and WaitConnection: the session is connected and
\* its two goroutines wait in their selects
Serving ==
  /\ NoApiCalls
  /\ started = TRUE
  /\ state = "Connected"
  /\ previousState = "Disconnected"
  /\ cn = 1
  /\ reconnectionTimeoutMs = defaultReconnectionTimeoutMs
  /\ shutdownConsumers = 2
  /\ statusChangeConsumers = 1
  /\ statusChangeLock = "free"
  /\ zkState = "Connected"
  /\ events = <<>>
  /\ eventsClosed = FALSE
  /\ pc = [p \in Callers |-> "idle"]
  /\ res = [p \in Callers |-> IF p = Main THEN "nil" ELSE "-"]
  /\ idx = 0
  /\ cur = 0
  /\ key = "-"
  /\ eventTasks = BagAdd(EmptyMap, [newEventTask(1) EXCEPT !.pc = "we_sel"])
  /\ stateTasks = BagAdd(EmptyMap, [newStateTask(1) EXCEPT !.pc = "cw_sel"])
  /\ notifiers = EmptyMap
  /\ stopTasks = EmptyMap
  /\ disconnected = EmptyMap
  /\ nLoss = 0
  /\ nEvents = 2
  /\ nStarts = 1
  /\ nStops = 0
  /\ nUnSets = 0
  /\ nChanges = 0
  /\ stopped = FALSE
  /\ forwarded = 0
  /\ lostSinceSet = FALSE
  /\ via = [p \in Waiters |-> "-"]
  /\ matching = 0
  /\ attempts = 0

\* a framework after Start and WaitConnection on which no listener is
\* registered
Running ==
  /\ Serving
  /\ statusChangeListeners = EmptyMap
  /\ shutdownListeners = EmptyMap
  /\ watchFns = EmptyMap
  /\ watchListeners = EmptyMap
  /\ watching = EmptyMap
  /\ nSets = 0

\* a run of the cache: the options it is built with, the namespace of the
\* framework, and how many calls of Get and of Clear, updates of nodes and
\* failing requests the run may take
CacheRun(pol, max, syn, ns, N, g, c, u, f) ==
  [policy |-> pol, max |-> max, synched |-> syn, ns |-> ns, names |-> N,
   gets |-> g, clears |-> c, changes |-> u, fails |-> f]

\* runs of a cache that is not synchronised, under each policy and a budget
\* of one or two entries, and a run under a namespace that is not the root
CacheRuns ==
  { CacheRun(pol, max, FALSE, <<>>, Names, MaxGets, MaxClears, MaxUpdates, MaxFails) :
      pol \in {EvictLeastRecentlyUsed, EvictLeastFrequentlyUsed, EvictRandomly},
      max \in 1..MaxEntries }
  \cup { CacheRun(EvictLeastFrequentlyUsed, MaxEntries, FALSE, <<"app">>, Names,
                  MaxGets, MaxClears, MaxUpdates, MaxFails) }

\* runs of a synchronised cache under each policy
SynchRuns ==
  { CacheRun(pol, 1, TRUE, <<>>, {"A", "B"}, SynchGets, MaxClears, SynchUpdates, MaxFails) :
      pol \in {EvictLeastRecentlyUsed, EvictLeastFrequentlyUsed, EvictRandomly} }

\* runs of a synchronised cache of three names, in which an evicted path can
\* come back by a refresh while two others are cached
RaceRuns ==
  { CacheRun(EvictLeastFrequentlyUsed, 1, TRUE, <<>>, Names, RaceGets, MaxClears, 1, 0),
    CacheRun(EvictLeastRecentlyUsed, 1, TRUE, <<>>, Names, RaceGets - 1, MaxClears, 1, 0) }

\* NewCacheWithOptions on a running framework, the nodes of the names
\* existing at their first version
CacheCreated(r) ==
  /\ Running
  /\ cache = EmptyMap
  /\ cacheUsage = EmptyMap
  /\ sizeInBytes = 0
  /\ evictionPolicy = r.policy
  /\ maxSizeInBytes = r.max
  /\ synched = r.synched
  /\ mu = "free"
  /\ namespace = r.ns
  /\ call = Idle
  /\ refreshTasks = EmptyMap
  /\ nodes = [q \in {Join(r.ns, <<n>>) : n \in r.names} |-> 1]
  /\ now = 0
  /\ nGets = 0
  /\ nClears = 0
  /\ nFails = 0
  /\ obs = NoObs
  /\ accessed = EmptyMap
  /\ limit = [names |-> r.names, gets |-> r.gets, clears |-> r.clears,
              changes |-> r.changes, fails |-> r.fails]

Init ==
  /\ Created
  /\ NoCache
  /\ NoApiCalls
  /\ limit \in Slices

WatchInit ==
  /\ Created
  /\ NoCache
  /\ NoApiCalls
  /\ limit \in WatchSlices

CacheInit == \E r \in CacheRuns : CacheCreated(r)

SynchInit == \E r \in SynchRuns : CacheCreated(r)

AnyCacheInit == \E r \in CacheRuns \cup SynchRuns : CacheCreated(r)

\* the connection manager and the session
FrameworkStep ==
  \/ StartAlready /\ UNCHANGED <<cacheVars, apiVars, attempts>>
  \/ Start /\ UNCHANGED <<cacheVars, apiVars, attempts>>
  \/ StopNotStarted /\ UNCHANGED <<cacheVars, apiVars, attempts>>
  \/ StopEnter /\ UNCHANGED <<cacheVars, apiVars, attempts>>
  \/ StopBgCheck /\ UNCHANGED <<cacheVars, apiVars, attempts>>
  \/ StopFinish /\ UNCHANGED <<cacheVars, apiVars, attempts>>
  \/ \E e \in DOMAIN eventTasks : WeRegister(e) /\ UNCHANGED <<cacheVars, apiVars, attempts>>
  \/ \E e \in DOMAIN eventTasks : WeRecvEvent(e) /\ UNCHANGED <<cacheVars, apiVars, attempts>>
  \/ \E e \in DOMAIN eventTasks : WeRecvClosed(e) /\ UNCHANGED <<cacheVars, apiVars, attempts>>
  \/ \E e \in DOMAIN eventTasks : WeExit(e) /\ UNCHANGED <<cacheVars, apiVars, attempts>>
  \/ \E c \in DOMAIN stateTasks : CwRegister(c) /\ UNCHANGED <<cacheVars, apiVars, attempts>>
  \/ \E c \in DOMAIN stateTasks : HandleSame(c) /\ UNCHANGED <<cacheVars, apiVars, attempts>>
  \/ \E c \in DOMAIN stateTasks : HandleChange(c) /\ UNCHANGED <<cacheVars, apiVars>>
  \/ \E c \in DOMAIN stateTasks : CwStopBgCheck(c) /\ UNCHANGED <<cacheVars, apiVars, attempts>>
  \/ \E c \in DOMAIN stateTasks : Reconnect(c) /\ UNCHANGED <<cacheVars, apiVars>>
  \/ \E c \in DOMAIN stateTasks : CwExit(c) /\ UNCHANGED <<cacheVars, apiVars, attempts>>
  \/ \E n \in DOMAIN notifiers : NtVisit(n) /\ UNCHANGED <<cacheVars, apiVars, attempts>>
  \/ \E s \in DOMAIN stopTasks : SgNextPhase(s) /\ UNCHANGED <<cacheVars, apiVars, attempts>>
  \/ \E e \in DOMAIN eventTasks, c \in DOMAIN stateTasks : StatusToWatcher(e, c) /\ UNCHANGED <<cacheVars, apiVars, attempts>>
  \/ \E e \in DOMAIN eventTasks : StopToEvents(e) /\ UNCHANGED <<cacheVars, apiVars, attempts>>
  \/ \E c \in DOMAIN stateTasks : StopToWatcher(c) /\ UNCHANGED <<cacheVars, apiVars, attempts>>
  \/ \E c \in DOMAIN stateTasks, e \in DOMAIN eventTasks : InvalidateToEvents(c, e) /\ UNCHANGED <<cacheVars, apiVars, attempts>>
  \/ \E c \in DOMAIN stateTasks, d \in DOMAIN stateTasks : InvalidateToWatcher(c, d) /\ UNCHANGED <<cacheVars, apiVars, attempts>>
  \/ ZkAdvance /\ UNCHANGED <<cacheVars, apiVars, attempts>>
  \/ ZkLoss /\ UNCHANGED <<cacheVars, apiVars, attempts>>

\* the callers of WaitConnection
WaiterStep ==
  \/ \E w \in Waiters : WcNotStarted(w) /\ UNCHANGED <<cacheVars, apiVars, attempts>>
  \/ \E w \in Waiters : WcCheck(w) /\ UNCHANGED <<cacheVars, apiVars, attempts>>
  \/ \E w \in Waiters : WcRegister(w) /\ UNCHANGED <<cacheVars, apiVars, attempts>>
  \/ \E w \in Waiters : WcRecheck(w) /\ UNCHANGED <<cacheVars, apiVars, attempts>>
  \/ \E w \in Waiters : WcTimeout(w) /\ UNCHANGED <<cacheVars, apiVars, attempts>>
  \/ \E w \in Waiters : WcReturn(w) /\ UNCHANGED <<cacheVars, apiVars, attempts>>
  \/ \E e \in DOMAIN eventTasks, w \in Waiters : StatusToWaiter(e, w) /\ UNCHANGED <<cacheVars, apiVars, attempts>>
  \/ \E w \in Waiters : StopToWaiter(w) /\ UNCHANGED <<cacheVars, apiVars, attempts>>
  \/ \E c \in DOMAIN stateTasks, w \in Waiters : InvalidateToWaiter(c, w) /\ UNCHANGED <<cacheVars, apiVars, attempts>>

\* the watch manager and the watched node
WatcherStep ==
  \/ \E k \in Keys : Set(k) /\ UNCHANGED <<cacheVars, apiVars, attempts>>
  \/ \E k \in Keys : UnSet(k) /\ UNCHANGED <<cacheVars, apiVars, attempts>>
  \/ \E f \in DOMAIN watchFns : UnSetSendTo(f) /\ UNCHANGED <<cacheVars, apiVars, attempts>>
  \/ \E f \in DOMAIN watchFns : FnRecv(f) /\ UNCHANGED <<cacheVars, apiVars, attempts>>
  \/ \E n \in DOMAIN notifiers : NtLost(n) /\ UNCHANGED <<cacheVars, apiVars, attempts>>
  \/ \E n \in DOMAIN notifiers : NtRearm(n) /\ UNCHANGED <<cacheVars, apiVars, attempts>>
  \/ \E n \in DOMAIN notifiers : NtSkip(n) /\ UNCHANGED <<cacheVars, apiVars, attempts>>
  \/ \E n \in DOMAIN notifiers, f \in DOMAIN watchFns : NtSendTo(n, f) /\ UNCHANGED <<cacheVars, apiVars, attempts>>
  \/ \E s \in DOMAIN stopTasks : SgVisit(s) /\ UNCHANGED <<cacheVars, apiVars, attempts>>
  \/ \E s \in DOMAIN stopTasks, f \in DOMAIN watchFns : SgSendTo(s, f) /\ UNCHANGED <<cacheVars, apiVars, attempts>>
  \/ NodeChange /\ UNCHANGED <<cacheVars, apiVars, attempts>>

\* the cache, its refresh goroutines, the watches and the remote nodes
CacheStep ==
  \/ \E n \in limit.names : GetHit(n)
  \/ \E n \in limit.names : GetMiss(n)
  \/ GetFetch
  \/ ClearEnter
  \/ ClearVisit
  \/ ClearExit
  \/ \E n \in limit.names : NodeUpdate(n)

\* the steps of a synchronised cache
SynchStep ==
  \/ GetWatch
  \/ \E t \in DOMAIN refreshTasks : EvictSendTo(t)
  \/ \E t \in DOMAIN refreshTasks : RtRenew(t)
  \/ \E t \in DOMAIN refreshTasks : RtUnSet(t)
  \/ \E t \in DOMAIN refreshTasks, f \in DOMAIN watchFns : RtStopSendTo(t, f)
  \/ \E f \in DOMAIN watchFns : FnTake(f)
  \/ \E f \in DOMAIN watchFns, t \in DOMAIN refreshTasks : FnForwardTo(f, t)

Next ==
  \/ FrameworkStep
  \/ WaiterStep

WatchNext ==
  \/ FrameworkStep
  \/ WatcherStep

\* the connection manager with callers of WaitConnection
Spec == Init /\ [][Next]_vars

\* the connection manager with a watch
WatchSpec == WatchInit /\ [][WatchNext]_vars

\* NewCacheWithOptions on a running framework and a first Get, of the name
\* n, that has returned: the payload is stored with its first usage, the
\* watch of the node is set and the refresh goroutine of the path waits
ReadOnce(r, n) ==
  /\ Serving
  /\ evictionPolicy = r.policy
  /\ maxSizeInBytes = r.max
  /\ synched = r.synched
  /\ namespace = r.ns
  /\ nodes = [q \in {Join(r.ns, <<m>>) : m \in r.names} |-> 1]
  /\ limit = [names |-> r.names, gets |-> r.gets, clears |-> r.clears,
              changes |-> r.changes, fails |-> r.fails]
  /\ mu = "free"
  /\ call = Idle
  /\ now = IF timed THEN 1 ELSE 0
  /\ nGets = 1
  /\ nClears = 0
  /\ nFails = 0
  /\ nSets = 1
  /\ LET p == actualPath(n)
         d == getNode(getPath(p), FALSE).data
         l == [path |-> watchPath(n), n |-> 1]
         k == namePartsToID(l.path)
     IN /\ cache = MapPut(EmptyMap, p, d)
        /\ cacheUsage = initCacheUsageByPolicy(EmptyMap, p, now)
        /\ accessed = stored(EmptyMap, p, now)
        /\ sizeInBytes = refreshSizeInBytes(cache)
        /\ watchListeners = MapPut(EmptyMap, k, l)
        /\ shutdownListeners = MapPut(EmptyMap, k, l)
        /\ statusChangeListeners = MapPut(EmptyMap, k, l)
        /\ watching = MapPut(EmptyMap, l, TRUE)
        /\ watchFns = BagAdd(EmptyMap, newWatchFn(l))
        /\ refreshTasks = BagAdd(EmptyMap, newRefreshTask(n, l))
        /\ obs = [NoObs EXCEPT !.op = "miss", !.path = p, !.fetches = 1,
                               !.run = followed(0, "miss", p),
                               !.ret = [err |-> FALSE, data |-> d]]

RaceInit == \E r \in RaceRuns : ReadOnce(r, "A")

CacheNext == CacheStep

\* a cache that is not synchronised
CacheSpec == CacheInit /\ [][CacheNext]_vars

SynchNext ==
  \/ CacheStep
  \/ SynchStep

\* a synchronised cache
SynchSpec == SynchInit /\ [][SynchNext]_vars

\* a cache of either kind
AnyCacheSpec == AnyCacheInit /\ [][SynchNext]_vars

RaceSpec == RaceInit /\ [][SynchNext]_vars

\* a test of the operations: on a framework that is created and not started,
\* or on a connected one; the node exists or does not exist when it begins
OperationInit ==
  /\ \/ Created /\ NoApiCalls
     \/ Running
  /\ cache = EmptyMap
  /\ cacheUsage = EmptyMap
  /\ sizeInBytes = 0
  /\ evictionPolicy = EvictLeastRecentlyUsed
  /\ maxSizeInBytes = 1
  /\ synched = TRUE
  /\ mu = "free"
  /\ namespace = <<>>
  /\ call = Idle
  /\ refreshTasks = EmptyMap
  /\ nodes \in {EmptyMap, MapPut(EmptyMap, <<TestNode>>, 1)}
  /\ now = 0
  /\ nGets = 0
  /\ nClears = 0
  /\ nFails = 0
  /\ obs = NoObs
  /\ accessed = EmptyMap
  /\ limit = Slice(0, 0, 0, 0, 0, 0, 0, 0)

\* the steps of the goroutines of execute and of the select of its caller
OperationProgress ==
  \/ \E t \in DOMAIN opTasks : Consume(t)
  \/ \E t \in DOMAIN opTasks : ConsumerSendTo(t)
  \/ \E t \in DOMAIN opTasks : ConsumerPanic(t)
  \/ \E t \in DOMAIN opTasks : ConsumerCancel(t)
  \/ \E t \in DOMAIN opTasks : CtxTimeout(t)
  \/ \E t \in DOMAIN opTasks : CtxSendTo(t)

OperationNext ==
  \/ \E op \in Ops : Execute(op)
  \/ OperationProgress

\* the operations of pkg/operation
OperationSpec == OperationInit /\ [][OperationNext]_vars

\* a test of the watch manager on a connected framework: the node exists or
\* does not exist when the test begins
WatcherInit ==
  /\ Running
  /\ cache = EmptyMap
  /\ cacheUsage = EmptyMap
  /\ sizeInBytes = 0
  /\ evictionPolicy = EvictLeastRecentlyUsed
  /\ maxSizeInBytes = 1
  /\ synched = TRUE
  /\ mu = "free"
  /\ namespace = <<>>
  /\ call = Idle
  /\ refreshTasks = EmptyMap
  /\ nodes \in {EmptyMap, MapPut(EmptyMap, <<TestNode>>, 1)}
  /\ now = 0
  /\ nGets = 0
  /\ nClears = 0
  /\ nFails = 0
  /\ obs = NoObs
  /\ accessed = EmptyMap
  /\ limit = [sets |-> TestSets, unsets |-> TestUnSets, changes |-> TestChanges]

WatcherNext ==
  \/ \E ts \in TypeArgs : WatcherSet(TestNode, ts)
  \/ \E ts \in TypeArgs : WatcherUnSet(TestNode, ts)
  \/ \E ts \in TypeArgs : WatcherUnSetAbsent(TestNode, ts)
  \/ \E f \in DOMAIN watchFns : WatcherStopSendTo(f)
  \/ \E f \in DOMAIN watchFns : WatchFnRecv(f)
  \/ \E f \in DOMAIN watchFns : WatchFnForward(f)
  \/ NodeCreate(TestNode)
  \/ NodeSet(TestNode)
  \/ NodeDelete(TestNode)

\* the watch manager's API on a connected framework
WatcherSpec == WatcherInit /\ [][WatcherNext]_vars

\* the calls of the watch manager made with either of two frameworks
PeersNext ==
  \/ WatcherNext
  \/ \E ts \in TypeArgs : PeerSet(TestNode, ts)
  \/ \E ts \in TypeArgs : PeerUnSet(TestNode, ts)
  \/ \E f \in DOMAIN watchFns : PeerStopSendTo(f)

\* two connected frameworks of one process and of the same namespace
PeersSpec == WatcherInit /\ [][PeersNext]_vars

\* a test on a framework that is created and not started: no budget of the
\* connection manager is used
RegistryInit ==
  /\ Created
  /\ NoCache
  /\ NoApiCalls
  /\ limit = Slice(0, 0, 0, 0, 0, 0, 0, 0)

\* the calls of the listener API
RegistryNext ==
  \/ \E l \in MockListeners : AddStatusChangeListener(l)
  \/ \E l \in MockListeners : RemoveStatusChangeListener(l)
  \/ \E l \in MockListeners : AddShutdownListener(l)
  \/ \E l \in MockListeners : RemoveShutdownListener(l)
  \/ NotifyStatusChange
  \/ NotifyShutdown
  \/ NotifyNext
  \/ NotifyReturn

RegistrySpec == RegistryInit /\ [][RegistryNext]_vars

\* ------------------------------------------------------------------ claims
\* the reconnecting connectionWatcher waits in stopBgTasks for a receiver of
\* its shutdown signal, and no task is left that could ever receive it: no
\* watchEvents, no other connectionWatcher, no WaitConnection caller in its
\* wait (a new caller cannot pass Connected(): the lock is held)
ReconnectStuck ==
  \E c \in DOMAIN stateTasks :
    /\ c.pc = "cw_sbsend"
    /\ statusChangeLock = "cw"
    /\ eventTasks = EmptyMap
    /\ DOMAIN stateTasks = {c}
    /\ stateTasks[c] = 1
    /\ \A w \in Waiters : pc[w] \in {"idle", "done"}

\* C1: the reconnection procedure never blocks forever: the task that runs it
\* is never left in stopBgTasks sending a shutdown signal nobody can receive
C1_ReconnectNeverBlocks == ~ReconnectStuck

\* nothing is in progress: no notification pending, no event queued or being
\* delivered, every background task in its select, no call of the application
\* in progress
Quiet ==
  /\ notifiers = EmptyMap
  /\ statusChangeLock = "free"
  /\ events = <<>>
  /\ \A e \in DOMAIN eventTasks : e.pc = "we_sel"
  /\ \A c \in DOMAIN stateTasks : c.pc = "cw_sel"
  /\ pc[Main] = "idle"

\* the key is registered in the table and in both registries
Registered(k) ==
  /\ k \in DOMAIN watchListeners
  /\ k \in DOMAIN statusChangeListeners
  /\ k \in DOMAIN shutdownListeners

\* C2: after the connection was lost and re-established, and once every
\* notification of it was delivered, a watch that is still registered has its
\* one-shot watch armed again on the new session
C2_RearmedAfterReconnect ==
  \A k \in Keys :
    ( /\ Registered(k)
      /\ lostSinceSet
      /\ nStops = 0
      /\ cn > 1
      /\ Connected
      /\ isConnectedState(zkState)
      /\ Quiet )
    => \E f \in DOMAIN watchFns : f.obj = watchListeners[k] /\ f.out = "armed"

\* C3: while the connection stays up, every change of the node made while the
\* watch is registered is forwarded: when no watch event is in flight, as many
\* events were forwarded as changes were made
C3_EveryChangeForwarded ==
  ( /\ nLoss = 0
    /\ nStops = 0
    /\ nUnSets = 0
    /\ cn = 1
    /\ \A f \in DOMAIN watchFns : f.out # "fired" )
  => forwarded = matching

\* C4: when handleStatusChange is called with the current state, the current
\* and the previous state stay as they are, no notification is spawned and no
\* reconnection starts (the lock is released, the session stays)
C4_SameStateIsNoOp ==
  [][ \A c \in DOMAIN stateTasks :
        ( /\ c.pc = "cw_lock"
          /\ c.st = state
          /\ statusChangeLock = "free"
          /\ IF c \in DOMAIN stateTasks' THEN stateTasks'[c] < stateTasks[c] ELSE TRUE )
        => /\ state' = state
           /\ previousState' = previousState
           /\ notifiers' = notifiers
           /\ statusChangeLock' = "free"
           /\ cn' = cn
           /\ reconnectionTimeoutMs' = reconnectionTimeoutMs ]_vars

\* a connectionWatcher has handled a state equal to the current one
C4_Witness == \E c \in DOMAIN stateTasks : c.last = "same"

\* C5: when WaitConnection returns nil the framework is connected
C5_NilMeansConnected ==
  [][ \A w \in Waiters :
        (res'[w] = "nil" /\ res[w] # "nil") => isConnectedState(state') ]_vars

\* C6: no waiter receives the same state event twice
C6_DeliveredOnce == \A e \in DOMAIN eventTasks : ~e.dup

\* C7: a notification calls the listeners registered at the time of the
\* transition with the (previous, current) pair of that transition
C7_NotifiedWithOwnTransition ==
  [][ \A n \in DOMAIN notifiers :
        (NtVisit(n) /\ left(n, statusChangeListeners) # {} /\ n.exp # NoPair)
        => n.exp = <<previousState, state>> ]_vars

\* the goroutine of Stop waits in watchListener.Stop, called on a listener
\* registered at the time of Stop, for a receiver of the listener's shutdown
\* signal, and there is none and never will be: the listener has no watchFn, is not watching, and no notification is inside its
\* OnStatusChange
StopTaskStuck ==
  \E s \in DOMAIN stopTasks :
    /\ s.pc = "sg_send"
    /\ s.cur \in s.reg
    /\ ~watching[s.cur]
    /\ \A f \in DOMAIN watchFns : f.obj # s.cur
    /\ \A n \in DOMAIN notifiers : n.cur # s.cur

\* C8: after Stop both registries become empty: the goroutine that notifies
\* the shutdown listeners and clears the registries is never blocked for good
\* before it has cleared them
C8_RegistriesCleared == ~(stopped /\ StopTaskStuck /\ statusChangeListeners # EmptyMap)

\* C9: after a successful Stop, and until the next Start, the framework is not
\* started and its state is Disconnected
C9_StoppedStaysStopped == stopped => (~started /\ state = "Disconnected")

\* C10: a call of Start after a successful Stop succeeds and opens a session
C10_RestartSucceeds ==
  [][ (stopped /\ nStarts' = nStarts + 1)
      => /\ res'[Main] = "nil"
         /\ started'
         /\ cn' = cn + 1
         /\ ~eventsClosed' ]_vars

\* Start, Stop, Start were called, and a WaitConnection that found the
\* framework connected returned nil on the session of the second Start
C10_Witness ==
  /\ started
  /\ nStarts = 2
  /\ nStops = 1
  /\ res[Main] = "nil"
  /\ cn = 2
  /\ zkState = "Connected"
  /\ Connected
  /\ \E w \in Waiters : res[w] = "nil" /\ via[w] = "connected" /\ pc[w] = "done"

\* ------------------------------------------------------------ cache claims
\* no call of the caller and no refresh is under way
CacheQuiet ==
  /\ call.pc = "idle"
  /\ mu = "free"
  /\ \A t \in DOMAIN refreshTasks : t.pc = "rt_sel"
  /\ \A f \in DOMAIN watchFns : f.pc = "fn_sel" /\ f.out # "fired"

\* C11: whenever no cache operation is in progress, GetSizeInBytes() is the
\* sum of the payload lengths of the entries in the cache
C11_SizeIsSumOfPayloads ==
  CacheQuiet => sizeInBytes = sumLen(cache, DOMAIN cache)

\* C12: a Get of a cached path returns the cached payload and makes no
\* remote fetch; a Get of a path that is not cached makes exactly one
C12_HitNoFetchMissOneFetch ==
  /\ obs.op = "hit" =>
        /\ obs.fetches = 0
        /\ ~obs.ret.err
        /\ obs.ret.data = obs.cache0[obs.path]
  /\ (obs.op = "miss" /\ call.pc \in {"idle", "get_watch"}) => obs.fetches = 1

\* a hit that returned the cached payload while the node held newer data,
\* after the miss that fetched it
C12_Witness ==
  /\ obs.op = "hit"
  /\ nChanges > 0
  /\ obs.path \in DOMAIN nodes
  /\ obs.ret.data # dataOf(obs.path, nodes[obs.path])

\* the data-changed event of the watch a synchronised cache armed for a
\* name has been produced and taken by the watchFn
EventTaken(n) ==
  \E f \in DOMAIN watchFns : f.obj.path = watchPath(n) /\ f.out = "closed"

\* C13: in a synchronised cache, once the data-changed events of the updates
\* of a cached node have been processed (nothing is under way any more and
\* no request failed), the cache holds the latest payload of the node, which
\* is what the next Get returns
C13_FreshAfterUpdate ==
  \A n \in Names :
    ( /\ synched
      /\ CacheQuiet
      /\ nFails = 0
      /\ actualPath(n) \in DOMAIN cache
      /\ watchPath(n) \in DOMAIN nodes
      /\ EventTaken(n) )
    => cache[actualPath(n)] = dataOf(watchPath(n), nodes[watchPath(n)])

\* C14: a cache that is not synchronised arms no watch and starts no refresh
\* goroutine, the payload of a path stays what it was for as long as the
\* path is cached, and a Get of the path returns it, whatever happens to
\* the node
C14_StaleUntilEvicted ==
  [][ ~synched =>
        /\ refreshTasks' = EmptyMap
        /\ watchListeners' = EmptyMap
        /\ watchFns' = EmptyMap
        /\ \A p \in DOMAIN cache \cap DOMAIN cache' : cache'[p] = cache[p]
        /\ (obs'.op = "hit" /\ nGets' # nGets) => obs'.ret.data = cache[obs'.path] ]_vars

\* a Get of a cache that is not synchronised returned the first version of
\* a node after the node was updated
C14_Witness ==
  /\ ~synched
  /\ obs.op = "hit"
  /\ obs.path \in DOMAIN nodes
  /\ nodes[obs.path] > 1
  /\ obs.ret.data = dataOf(obs.path, 1)

\* C15: after a refresh whose fetch failed, the entry holds the payload it
\* held before the refresh and the size is what it was
C15_FailedRefreshKeepsEntry ==
  (obs.op = "renew" /\ obs.ret.err /\ obs.path \in DOMAIN obs.cache0) =>
     /\ obs.path \in DOMAIN cache
     /\ cache[obs.path] = obs.cache0[obs.path]
     /\ sizeInBytes = obs.size0

\* the watch and the refresh goroutine of a name
Watched(n) ==
  \/ \E t \in DOMAIN refreshTasks : t.name = n
  \/ \E f \in DOMAIN watchFns : f.obj.path = watchPath(n)
  \/ namePartsToID(watchPath(n)) \in DOMAIN watchListeners

\* C16: in a synchronised cache, when no operation is under way, a path that
\* was evicted has no watch and no refresh goroutine left, and a path that
\* is cached has its refresh goroutine and the watchFn of its watch
C16_EvictionStopsOnlyItsWatch ==
  (synched /\ CacheQuiet) =>
    \A n \in limit.names :
      IF actualPath(n) \in DOMAIN cache
        THEN /\ \E t \in DOMAIN refreshTasks : t.name = n
             /\ \E f \in DOMAIN watchFns : f.obj.path = watchPath(n)
        ELSE ~Watched(n)

\* the last call is a Get of a path that was not cached and it is past its
\* eviction test
MissFetching == obs.op = "miss" /\ call.pc \in {"get_fetch", "get_watch", "idle"}

\* C17: a Get of a path that is not cached evicts exactly one entry when the
\* payloads cached before it add up to more than MaxSizeInBytes, and no
\* entry otherwise
C17_OneEvictionIffOverBudget ==
  MissFetching =>
    Cardinality(obs.evicted) =
      IF sumLen(obs.cache0, DOMAIN obs.cache0) > maxSizeInBytes THEN 1 ELSE 0

\* C18: under the least-frequently-used policy the entry a Get of a path that
\* is not cached evicts is another path than the one being fetched, it was
\* cached before the Get, and no entry cached before the Get had a smaller
\* access count
C18_LFUEvictsLeastFrequent ==
  (evictionPolicy = EvictLeastFrequentlyUsed /\ MissFetching) =>
    \A v \in obs.evicted :
      /\ v # obs.path
      /\ v \in DOMAIN obs.cache0
      /\ \A q \in DOMAIN obs.cache0 : obs.accessed0[v] <= obs.accessed0[q]

\* C19: under the least-recently-used policy the entry a Get of a path that
\* is not cached evicts was cached before the Get and no entry cached before
\* the Get was put into the cache or found by a Get longer ago
C19_LRUEvictsOldestAccess ==
  (evictionPolicy = EvictLeastRecentlyUsed /\ MissFetching) =>
    \A v \in obs.evicted :
      /\ v \in DOMAIN obs.cache0
      /\ ~ \E q \in DOMAIN obs.cache0 : obs.accessed0[q] < obs.accessed0[v]

\* the example of the least-frequently-used policy has run: on a new cache
\* of a framework in the root namespace the calls were Get of A three times,
\* of B twice and of C once, every fetch succeeded and the three nodes hold
\* payloads of one size
PatternDone ==
  /\ evictionPolicy = EvictLeastFrequentlyUsed
  /\ namespace = <<>>
  /\ obs.run = Len(Pattern)
  /\ call.pc = "idle"
  /\ nFails = 0
  /\ \A q \in DOMAIN nodes : nodes[q] = 1

\* the size of one entry of the example
entrySize == Len(getNode(getPath(actualPath("A")), FALSE).data)

\* a capacity for two of the three entries: the sum of two payloads, or one
\* byte less as in the eviction tests
SizedForTwo == maxSizeInBytes \in {2 * entrySize - 1, 2 * entrySize}

Cached(n) == actualPath(n) \in DOMAIN cache

\* C20 as stated: after the example, with a capacity for two of the three
\* entries, C is evicted and A and B are cached
C20_LFUExampleEvictsC ==
  (PatternDone /\ SizedForTwo) => (~Cached("C") /\ Cached("A") /\ Cached("B"))

\* C20: after the example, with a capacity for two of the three entries, A
\* and C are cached; B, the less frequently read of the two entries cached
\* before the Get of C, is evicted when the capacity is one byte less than
\* two payloads, and is cached too when the capacity is two payloads
C20_LFUExampleEvictsB ==
  (PatternDone /\ SizedForTwo) =>
    /\ Cached("A")
    /\ Cached("C")
    /\ Cached("B") <=> (maxSizeInBytes >= 2 * entrySize)

C20_Witness ==
  /\ PatternDone
  /\ maxSizeInBytes = 2 * entrySize - 1
  /\ obs.evicted = {actualPath("B")}
  /\ DOMAIN cache = {actualPath("A"), actualPath("C")}

\* the payloads the node that Get fetches for the cached path p has held
payloadsOf(p) ==
  IF getPath(p) \in DOMAIN nodes
  THEN {dataOf(getPath(p), v) : v \in 1..nodes[getPath(p)]}
  ELSE {}

\* the last call is a Get and it has returned
GetReturned == obs.op \in {"hit", "miss"} /\ call.pc = "idle"

\* C21: a Get of a path that is not cached whose fetch fails returns the
\* failure with no payload and leaves the path out of the cache, and a Get
\* that returns without failure returns a payload the node of the path has
\* held
C21_FailedFetchNotCached ==
  GetReturned =>
    /\ (obs.op = "miss" /\ obs.ret.err) =>
          (obs.ret.data = <<>> /\ obs.path \notin DOMAIN cache)
    /\ ~obs.ret.err => obs.ret.data \in payloadsOf(obs.path)

\* the last call is a Clear, it has returned, and no refresh goroutine is on
\* its way out
ClearReturned ==
  /\ obs.op = "clear"
  /\ call.pc = "idle"
  /\ \A t \in DOMAIN refreshTasks : t.pc \in {"rt_sel", "rt_renew"}

\* C22: after Clear has returned no path is cached and the size is 0; in a
\* synchronised cache, once the refresh goroutines that were told to stop
\* are gone, no refresh goroutine is left, no listener of the cache is in
\* the table of the watcher and no watchFn runs
C22_ClearLeavesNothing ==
  ClearReturned =>
    /\ cache = EmptyMap
    /\ sizeInBytes = 0
    /\ synched => /\ refreshTasks = EmptyMap
                  /\ watchListeners = EmptyMap
                  /\ watchFns = EmptyMap

\* ---------------------------------------------------------- registry claims
\* the registry the last call of the listener API worked on, as it found it
registryBefore == IF rcall.kind = "status" THEN rcall.status0 ELSE rcall.shutdown0

\* both registries are as the last call of the listener API found them
RegistriesKept ==
  /\ statusChangeListeners = rcall.status0
  /\ shutdownListeners = rcall.shutdown0

\* C23: in either registry an Add of a listener whose id is registered
\* returns ListenerAlreadyExists, a Remove of a listener whose id is not
\* registered returns ListenerNotFound, and both leave the registries as
\* they were, the listener registered under the id included
C23_DuplicateAddMissingRemoveFail ==
  /\ (rcall.op = "add" /\ rcall.l.ID \in DOMAIN registryBefore) =>
        (res[Main] = "ListenerAlreadyExists" /\ RegistriesKept)
  /\ (rcall.op = "remove" /\ rcall.l.ID \notin DOMAIN registryBefore) =>
        (res[Main] = "ListenerNotFound" /\ RegistriesKept)

\* an Add of a listener whose id another listener is registered under has
\* failed
C23_Witness ==
  /\ rcall.op = "add"
  /\ rcall.l.ID \in DOMAIN registryBefore
  /\ registryBefore[rcall.l.ID] # rcall.l
  /\ res[Main] = "ListenerAlreadyExists"
  /\ registryOf(rcall.kind)[rcall.l.ID] # rcall.l

\* the listener l was registered in the registry of the last call when the
\* call began
wasRegistered(l) == l.ID \in DOMAIN registryBefore /\ registryBefore[l.ID] = l

\* C24: when a call of NotifyStatusChange or NotifyShutdown has returned,
\* the callback of every listener that was registered in that registry has
\* been called once more than before and no other callback was called,
\* whatever the callbacks returned
C24_NotifyCallsEachOnce ==
  rcall.op = "notified" =>
    \A x \in DOMAIN interactions :
      interactions[x] =
        rcall.int0[x] + (IF x[1] = rcall.kind /\ wasRegistered(x[2]) THEN 1 ELSE 0)

\* a Notify has returned that found two listeners registered, one of which
\* returns an error
C24_Witness ==
  /\ rcall.op = "notified"
  /\ Cardinality(DOMAIN registryBefore) = 2
  /\ \E k \in DOMAIN registryBefore : registryBefore[k].fails
  /\ \A k \in DOMAIN registryBefore : interactions[<<rcall.kind, registryBefore[k]>>] > 0

\* ------------------------------------------------------ watch manager claims
\* C25: a call of Set for a path that does not exist when the call is made
\* returns UnknownNode
C25_SetOnMissingNodeUnknownNode ==
  [][ \A ts \in TypeArgs :
        (WatcherSet(TestNode, ts) /\ actualPath(TestNode) \notin DOMAIN nodes)
          => res'[Main] = "UnknownNode" ]_vars

\* the second of two calls of Set for a node that never existed has returned
\* ListenerAlreadyExists
C25_SecondSetOnMissingNode ==
  /\ rcall.op = "set"
  /\ nSets = 2
  /\ nChanges = 0
  /\ nodes = EmptyMap
  /\ res[Main] = "ListenerAlreadyExists"

\* the subscription registered under an id is live: its listener is in both
\* registries and a watchFn of it runs
subscribed(id) ==
  /\ id \in DOMAIN shutdownListeners
  /\ id \in DOMAIN statusChangeListeners
  /\ statusChangeListeners[id] = shutdownListeners[id]
  /\ \E f \in DOMAIN watchFns : f.obj = shutdownListeners[id]

\* C26: a call of Set for a path and types whose subscription is live fails
\* and leaves the subscription as it was: the table holds its listener, its
\* watchFn runs, and a later UnSet of the id stops that listener
C26_SecondSetKeepsFirst ==
  [][ \A ts \in TypeArgs :
        LET id == watchID(TestNode, ts)
        IN subscribed(id) =>
             /\ WatcherSet(TestNode, ts) =>
                  /\ res'[Main] # "nil"
                  /\ watchListeners'[id] = shutdownListeners[id]
                  /\ UNCHANGED <<regVars, watchFns>>
             /\ WatcherUnSet(TestNode, ts) => cur' = shutdownListeners[id] ]_vars

\* after a second Set, UnSet waits in the send of Stop on the channel of a
\* listener that has no watchFn, while the watchFn of the first listener
\* runs on
C26_UnSetStuck ==
  /\ pc[Main] = "unset_send"
  /\ \A f \in DOMAIN watchFns : f.obj # cur
  /\ subscribed(key)

\* the event types a call of Set asks for: the ones it is given, or the four
\* types of a node's events when it is given none
asked(ts) ==
  IF ts = <<>>
    THEN {EventNodeDataChanged, EventNodeChildrenChanged, EventNodeCreated, EventNodeDeleted}
    ELSE {ts[i] : i \in 1..Len(ts)}

\* C27: every event a test has received on the output channel of a watch is
\* of a type the call of Set that made the watch asked for
C27_OnlyAskedTypesForwarded ==
  \A e \in outCh :
    \E ts \in TypeArgs :
      /\ e.to.ID = watchID(TestNode, ts)
      /\ e.type \in asked(ts)

\* the node was deleted under two watches: the watch set without types has
\* forwarded the event, the watch set for data changes has dropped it
C27_Witness ==
  /\ \E e \in outCh : e.type = EventNodeDeleted /\ e.to.ID = watchID(TestNode, <<>>)
  /\ \E f \in DOMAIN watchFns :
       /\ f.obj.ID = watchID(TestNode, <<EventNodeDataChanged>>)
       /\ f.pc = "fn_sel"
       /\ f.out = "closed"
       /\ \A e \in outCh : e.to # f.obj

\* C28: once UnSet has returned, and until the next Set, the subscription
\* has no watchFn (so nothing is forwarded to its output channel), it is in
\* neither registry and its key is not in the table.  The run has one key,
\* which Set writes to the table and only a returning UnSet deletes.
C28_UnSetStopsSubscription ==
  (nUnSets > 0 /\ pc[Main] = "idle" /\ watchListeners = EmptyMap) =>
    /\ watchFns = EmptyMap
    /\ \A k \in Keys : k \notin DOMAIN statusChangeListeners /\ k \notin DOMAIN shutdownListeners

\* ----------------------------------------------------------- backoff claims
\* C29: the delay the next reconnection attempt waits is the base delay of
\* 100 ms doubled once for every attempt made since the last successful
\* reconnect (the last transition from a state that is not connected to a
\* connected one): base * 2^(n-1) before the n-th attempt in a row, and the
\* base delay again after a successful reconnect
C29_BackoffDoubles ==
  reconnectionTimeoutMs = defaultReconnectionTimeoutMs * 2^attempts

\* the connection was lost, the reconnection attempt has waited the base
\* delay and doubled it, and the session it opened has connected: the delay
\* is the base delay again
C29_Witness ==
  /\ nLoss = 1
  /\ cn = 2
  /\ attempts = 0
  /\ isConnectedState(state)
  /\ reconnectionTimeoutMs = defaultReconnectionTimeoutMs

\* ---------------------------------------------------- WaitConnection claims
\* C30: a call of WaitConnection on a framework on which Start was never
\* called returns FrameworkNotYetStarted in its first step, whenever its
\* timeout would expire: it does not wait and it registers itself neither
\* as a consumer of the shutdown signal nor of the state changes
C30_NeverStartedFailsAtOnce ==
  [][ \A w \in Waiters :
        (nStarts = 0 /\ pc[w] = "idle" /\ pc'[w] # "idle")
          => /\ pc'[w] = "done"
             /\ res'[w] = "NotYetStarted"
             /\ UNCHANGED cntVars ]_vars

\* WaitConnection has returned FrameworkNotYetStarted on a framework that
\* was never started and counts no consumer
C30_Witness ==
  /\ nStarts = 0
  /\ \E w \in Waiters : pc[w] = "done" /\ res[w] = "NotYetStarted"
  /\ shutdownConsumers = 0
  /\ statusChangeConsumers = 0

\* ------------------------------------------------------------ Start claims
\* C31: a call of Start on a started framework returns
\* FrameworkAlreadyStarted and changes nothing: the session, its event
\* channel, the states, the background goroutines and the consumer counters
\* are as before
C31_StartTwiceChangesNothing ==
  [][ (started /\ nStarts' = nStarts + 1)
        => /\ res'[Main] = "AlreadyStarted"
           /\ UNCHANGED <<fwVars, zkVars, cntVars, regVars, taskVars, statusChangeLock>> ]_vars

\* Start was called on a started framework and has returned
\* FrameworkAlreadyStarted; the framework has its one session
C31_Witness ==
  /\ started
  /\ nStarts = 2
  /\ cn = 1
  /\ res[Main] = "AlreadyStarted"

\* C32: an operation (Get, Update, Create, Delete, Exists, Ls) called on a
\* framework that is not started returns to its caller with
\* FrameworkNotYetStarted: once it has returned its result is that error, and
\* until then some step of the call can be taken, so that it does not block
\* forever
C32_UnstartedOperationReturns ==
  (rcall.op \in Ops /\ rcall.unstarted)
    => IF pc[Main] = "idle"
         THEN res[Main] = "NotYetStarted"
         ELSE ENABLED OperationProgress

\* Stop waits in stopBgTasks, holding the state lock, for a receiver of its
\* shutdown signal, and no task is left that could ever receive it: every
\* watchEvents hands a state to a task that is not there or has returned,
\* every connectionWatcher waits for the lock or has returned, and every
\* WaitConnection caller waits for the read lock or is leaving
StopStuck ==
  /\ pc[Main] = "stop_send"
  /\ statusChangeLock = "main"
  /\ \A e \in DOMAIN eventTasks : e.pc \in {"we_send", "we_exit"}
  /\ \A c \in DOMAIN stateTasks : c.pc \in {"cw_lock", "cw_exit"}
  /\ \A w \in Waiters : pc[w] \in {"idle", "wc_rechk", "wc_ret", "done"}

\* C33: Stop on a started framework always returns: it is never left in
\* stopBgTasks, holding the state lock, sending a shutdown signal that no
\* task can receive any more
C33_StopAlwaysReturns == ~StopStuck

StopStuckForGood == [][StopStuck => StopStuck']_vars

\* at most one goroutine of the bag has not reached its return
atMostOneRuns(b, exit) ==
  \A t, u \in DOMAIN b : (t.pc # exit /\ u.pc # exit) => (t = u /\ b[t] = 1)

\* C34: a started framework has at most one state-transition task
\* (connectionWatcher) and at most one event-ingestion task (watchEvents):
\* after a reconnection the tasks of the previous session have returned
C34_OneTaskOfEachKind ==
  started => /\ atMostOneRuns(stateTasks, "cw_exit")
             /\ atMostOneRuns(eventTasks, "we_exit")

\* evict waits, under the cache lock, for a receiver of the path it sends on
\* evictPathCh, and no refresh goroutine is left that could ever receive it:
\* each of them waits for the cache lock in renew or is on its way out
EvictStuck ==
  /\ call.pc \in {"get_evict", "clear_evict"}
  /\ mu = "held"
  /\ \A t \in DOMAIN refreshTasks : t.pc \in {"rt_renew", "rt_unset", "rt_stop", "rt_panic"}

\* C35: in a synchronised cache Get and Clear always return: an eviction
\* that holds the cache lock and a refresh goroutine that waits for it never
\* block each other for good
C35_EvictionNeverBlocks == ~EvictStuck

EvictStuckForGood == [][EvictStuck => EvictStuck']_vars

\* C36: a call of Set that fails with UnknownNode leaves the registration
\* table and both listener registries as they were before the call
C36_FailedSetLeavesNoTrace ==
  [][ \A ts \in TypeArgs :
        (WatcherSet(TestNode, ts) /\ res'[Main] = "UnknownNode")
          => UNCHANGED <<watchListeners, statusChangeListeners, shutdownListeners>> ]_vars

\* C37: the registrations of two frameworks are independent: while the
\* subscription of the first framework under an id is live and the table
\* holds its listener, a call of Set or of UnSet made with the second
\* framework for the same path and types does not replace that listener in
\* the table, does not stop it and does not remove it
C37_RegistrationsIndependent ==
  [][ \A ts \in TypeArgs :
        LET id == watchID(TestNode, ts)
        IN (/\ subscribed(id)
            /\ id \in DOMAIN watchListeners
            /\ watchListeners[id] = shutdownListeners[id]
            /\ PeerSet(TestNode, ts) \/ PeerUnSet(TestNode, ts))
             => /\ id \in DOMAIN watchListeners'
                /\ watchListeners'[id] = watchListeners[id]
                /\ watching'[watchListeners[id]] = watching[watchListeners[id]]
                /\ cur' # watchListeners[id]
                /\ UNCHANGED <<regVars, watchFns>> ]_vars

\* C38: under every namespace a fetch of Cache.Get on a miss, and a fetch of
\* a background refresh, whose request is not lost yields what the node at
\* namespace + name holds, the node on which the cache arms its watch: the
\* namespace is prefixed once
C38_NamespacePrefixedOnce ==
  [][ /\ (GetFetch /\ nFails' = nFails)
           => /\ obs'.ret = getNode(Join(namespace, <<call.name>>), FALSE)
              /\ watchPath(call.name) = Join(namespace, <<call.name>>)
      /\ \A t \in DOMAIN refreshTasks :
           (RtRenew(t) /\ nFails' = nFails)
             => obs'.ret = getNode(Join(namespace, <<t.name>>), FALSE) ]_vars

\* C39: under the LRU and LFU policies, whenever no operation of the cache
\* is in progress, the paths that have a usage metric are the cached paths
C39_UsageCoversCache ==
  (/\ evictionPolicy \in {EvictLeastRecentlyUsed, EvictLeastFrequentlyUsed}
   /\ call.pc = "idle"
   /\ mu = "free")
    => DOMAIN cacheUsage = DOMAIN cache

\* C40: a call of UnSet for a path and types that have no registration
\* returns nil and changes nothing: the table, the registries, the listeners
\* and their goroutines are as before
C40_UnSetOfNothing ==
  [][ \A ts \in TypeArgs :
        WatcherUnSetAbsent(TestNode, ts)
          => /\ pc'[Main] = "idle"
             /\ res'[Main] = "nil"
             /\ UNCHANGED <<watchListeners, regVars, watching, watchFns>> ]_vars
====
